---- MODULE Spec2Model ----
(***************************************************************************)
(* Model of the archetype graph of bevy_ecs (crates/bevy_ecs/src/          *)
(* archetype.rs): the Archetypes registry, the per-archetype entity list   *)
(* and the Edges cache; and of the query iterators over it (crates/        *)
(* bevy_ecs/src/query/iter.rs): QueryIterationCursor, QueryIter,           *)
(* QueryManyIter and QueryCombinationIter.  Ids and indices are 0-based as *)
(* in the source; a Rust Vec is a TLA+ sequence, so element i of a Vec is  *)
(* seq[i + 1].  Option<T> is a sequence of length 0 (None) or 1 (Some).    *)
(***************************************************************************)
EXTENDS Integers, Sequences, FiniteSets, TLC

\* ------------------------------------------------------------------ bounds
\* Archetypes (the empty one included) a run may create, per specification.
MaxArchetypes == 3
MaxArchetypesSmall == 2
MaxArchetypesCreate == 5
MaxArchetypesFull == 8
\* Entities a run may allocate, per specification.
MaxEntities == 3
MaxEntitiesSmall == 2
MaxEntitiesGraph == 1
\* Edge entries a run may hold, per specification.
MaxEdges == 2
MaxEdgesGraph == 1
\* Longest component list passed in an arbitrary order.
MaxListLen == 2
\* Width of the id types.  The source stores ids in 32 bits (NonMaxU32); the
\* model narrows them to IdBits bits so that the end of the id space can be
\* reached, and U32_MAX is the largest value of that narrowed type.
IdBits == 3
\* Entities of the worlds a query iterates, per specification.
MaxQueryEntities == 3
MaxManyEntities == 2
MaxBorrowEntities == 3
MaxCombinationEntities == 4
\* Longest entity list handed to a QueryManyIter.
MaxManyLen == 3
\* Largest number of cursors of a QueryCombinationIter.
MaxK == 3
\* How often an iterator is called again after it has returned None.
MaxNoneReturns == 3
\* Width of usize, narrowed so that the multiplication of size_hint can
\* overflow.
UsizeBits == 3
\* Largest capacity a Vec32 is made with and largest request to reserve.
MaxCapacity == 3
MaxAdditional == 3
\* Component ids registered as resources, and the values a resource may hold.
MaxResourceIds == 2
MaxValues == 2
\* The interval, in ticks, within which the sweep of the change ticks is to
\* run.  The source's value belongs to 32-bit ticks; the model narrows it with
\* the ticks.
CHECK_TICK_THRESHOLD == 2
\* Entities of a hierarchy and the longest Children list, per specification.
MaxHierarchyEntities == 3
MaxTreeEntities == 4
MaxChildren == 2

\* ------------------------------------------------------- program constants
U32_MAX == 2^IdBits - 1
USIZE_MAX == 2^UsizeBits - 1
\* The largest age a tick may have: older ticks are clamped by the sweep.
MAX_CHANGE_AGE == U32_MAX - (2 * CHECK_TICK_THRESHOLD - 1)

None == <<>>
Some(x) == <<x>>

\* Each component's storage type is fixed at registration: 0 and 1 are
\* table components, 2 is a sparse-set component.
TableComponentIds == {0, 1}
SparseSetComponentIds == {2}
TableIds == {0, 1}
TableRows == {0, 1}
BundleIds == {0, 1}
Entities == 1..MaxEntities
BundleStatuses == {<<"Added">>, <<"Mutated", "Added">>}

VARIABLES
    archetypes,                 \* Archetypes.archetypes: Vec<Archetype>
    archetype_component_count,  \* Archetypes.archetype_component_count
    archetype_ids,              \* Archetypes.archetype_ids: identity -> id
    locations,                  \* the caller's EntityLocation of each entity
    issued,                     \* history: every id get_id_or_insert returned
    last,                       \* the last operation, its arguments and result
    panicked,                   \* TRUE once an operation has panicked
    tables,                     \* Tables: the entity list of each table
    query_state,                \* QueryState: the cached match result
    iter,                       \* the query iterator under iteration
    yielded,                    \* history: the items the iterator returned
    calls,                      \* history: the fetch calls of the last step
    live,                       \* the items whose lifetime has not ended
    read_only,                  \* Q: ReadOnlyWorldQuery
    resources,                  \* Resources.resources: ComponentId -> ResourceData
    hierarchy,                  \* Parent, Children, Transform and change flags
    global_transforms,          \* the GlobalTransform of each entity
    tasks,                      \* the task of each root: its call stack
    touched,                    \* history: <<root, entity>> of each `&mut` taken
    vec32                       \* a Vec32: data, length and capacity

\* The variables of the query iterators.
qvars == <<tables, query_state, iter, yielded, calls, live, read_only>>

\* The variables of the storages: the resource store and a Vec32.
rvars == <<resources, vec32>>

\* The variables of transform propagation.
tvars == <<hierarchy, global_transforms, tasks, touched>>

vars == <<archetypes, archetype_component_count, archetype_ids, locations,
          issued, last, panicked, tables, query_state, iter, yielded, calls,
          live, read_only, resources, hierarchy, global_transforms, tasks,
          touched, vec32>>

\* ----------------------------------------------------------------- helpers
Range(s) == {s[i] : i \in DOMAIN s}

RECURSIVE SetToSortedSeq(_)
SetToSortedSeq(S) ==
    IF S = {} THEN <<>>
    ELSE LET m == CHOOSE x \in S : \A y \in S : x <= y
         IN  <<m>> \o SetToSortedSeq(S \ {m})

\* Sorted, duplicate-free lists: what callers of get_id_or_insert pass.
SortedLists(S) == {SetToSortedSeq(T) : T \in SUBSET S}

\* Duplicate-free lists in any order.
AnyLists(S) ==
    {list \in UNION {[1..n -> S] : n \in 0..MaxListLen} :
        \A i, j \in DOMAIN list : (list[i] = list[j]) => (i = j)}

\* ---------------------------------------------------------------- id types
\* ArchetypeId::new: Some(index), or None for the assertion failure (panic).
ArchetypeId_new(index) ==
    IF index < U32_MAX THEN Some(index) ELSE None

\* ArchetypeId::new_unchecked: `index as u32`, no assertion.
ArchetypeId_new_unchecked(index) == index % (U32_MAX + 1)

\* ArchetypeId::index: the stored u32 widened to usize.
ArchetypeId_index(id) == id

\* The tuple constructor used in get_id_or_insert: no range assertion, the
\* index is stored in 32 bits.
ArchetypeComponentId(index) == index % (U32_MAX + 1)

\* ArchetypeComponentId::new_unchecked: `index as u32`, no assertion.
ArchetypeComponentId_new_unchecked(index) == index % (U32_MAX + 1)

\* ArchetypeComponentId::new: Some(id), or None for the assertion failure.
ArchetypeComponentId_new(index) ==
    IF index < U32_MAX THEN Some(ArchetypeComponentId_new_unchecked(index))
    ELSE None

\* ArchetypeComponentId::index.
ArchetypeComponentId_index(id) == id

\* ------------------------------------------------------------------- Edges
SparseArray_get(array, key) ==
    IF key \in DOMAIN array THEN Some(array[key]) ELSE None

SparseArray_insert(array, key, value) ==
    [k \in DOMAIN array \cup {key} |-> IF k = key THEN value ELSE array[k]]

Edges_default ==
    [add_bundle |-> <<>>, remove_bundle |-> <<>>,
     remove_bundle_intersection |-> <<>>]

Edges_get_add_bundle(edges, bundle_id) ==
    SparseArray_get(edges.add_bundle, bundle_id)

Edges_insert_add_bundle(edges, bundle_id, archetype_id, bundle_status) ==
    [edges EXCEPT !.add_bundle =
        SparseArray_insert(@, bundle_id,
            [archetype_id |-> archetype_id, bundle_status |-> bundle_status])]

Edges_get_remove_bundle(edges, bundle_id) ==
    SparseArray_get(edges.remove_bundle, bundle_id)

Edges_insert_remove_bundle(edges, bundle_id, archetype_id) ==
    [edges EXCEPT !.remove_bundle = SparseArray_insert(@, bundle_id, archetype_id)]

Edges_get_remove_bundle_intersection(edges, bundle_id) ==
    SparseArray_get(edges.remove_bundle_intersection, bundle_id)

\* A plausible bug: the intersection edge is written to remove_bundle.
Edges_insert_remove_bundle_intersection_wrong_map(edges, bundle_id, archetype_id) ==
    [edges EXCEPT !.remove_bundle = SparseArray_insert(@, bundle_id, archetype_id)]

Edges_insert_remove_bundle_intersection(edges, bundle_id, archetype_id) ==
    [edges EXCEPT !.remove_bundle_intersection =
        SparseArray_insert(@, bundle_id, archetype_id)]

\* --------------------------------------------------------------- Archetype
SparseSet_insert(set, key, value) ==
    [k \in DOMAIN set \cup {key} |-> IF k = key THEN value ELSE set[k]]

\* One of the two insertion loops of Archetype::new.
RECURSIVE InsertComponents(_, _, _)
InsertComponents(components, pairs, storage_type) ==
    IF pairs = <<>> THEN components
    ELSE InsertComponents(
             SparseSet_insert(components, Head(pairs)[1],
                 [storage_type |-> storage_type,
                  archetype_component_id |-> Head(pairs)[2]]),
             Tail(pairs), storage_type)

Archetype_new(id, table_id, table_components, sparse_set_components) ==
    [id |-> id,
     table_id |-> table_id,
     entities |-> <<>>,
     components |->
         InsertComponents(
             InsertComponents(<<>>, table_components, "Table"),
             sparse_set_components, "SparseSet"),
     edges |-> Edges_default]

Archetype_table_components(archetype) ==
    {c \in DOMAIN archetype.components :
        archetype.components[c].storage_type = "Table"}

Archetype_sparse_set_components(archetype) ==
    {c \in DOMAIN archetype.components :
        archetype.components[c].storage_type = "SparseSet"}

Archetype_components(archetype) == DOMAIN archetype.components

Archetype_len(archetype) == Len(archetype.entities)

\* A plausible bug: the returned index is the length after the push.
Archetype_allocate_len(archetype, entity, table_row) ==
    LET pushed == Append(archetype.entities,
                         [entity |-> entity, table_row |-> table_row])
    IN  [archetype |-> [archetype EXCEPT !.entities = pushed],
         ret |-> [archetype_id |-> archetype.id, index |-> Len(pushed)]]

\* allocate: the archetype after the push and the returned EntityLocation.
Archetype_allocate(archetype, entity, table_row) ==
    LET pushed == Append(archetype.entities,
                         [entity |-> entity, table_row |-> table_row])
    IN  [archetype |-> [archetype EXCEPT !.entities = pushed],
         ret |-> [archetype_id |-> archetype.id, index |-> Len(pushed) - 1]]

\* Vec::swap_remove(index), index < len: the last element takes the place of
\* the removed one.
Vec_swap_remove(vec, index) ==
    [j \in 1..(Len(vec) - 1) |-> IF j = index + 1 THEN vec[Len(vec)] ELSE vec[j]]

\* A plausible bug: the table_row returned is read after the swap, from the
\* entity that was last.
Archetype_swap_remove_row_after(archetype, index) ==
    LET is_last == index = Len(archetype.entities) - 1
        rest == Vec_swap_remove(archetype.entities, index)
    IN  [archetype |-> [archetype EXCEPT !.entities = rest],
         ret |-> [swapped_entity |->
                      IF is_last THEN None ELSE Some(rest[index + 1].entity),
                  table_row |->
                      archetype.entities[Len(archetype.entities)].table_row]]

\* swap_remove, index < len: the archetype afterwards and the
\* ArchetypeSwapRemoveResult.
Archetype_swap_remove(archetype, index) ==
    LET is_last == index = Len(archetype.entities) - 1
        entity == archetype.entities[index + 1]
        rest == Vec_swap_remove(archetype.entities, index)
    IN  [archetype |-> [archetype EXCEPT !.entities = rest],
         ret |-> [swapped_entity |->
                      IF is_last THEN None ELSE Some(rest[index + 1].entity),
                  table_row |-> entity.table_row]]

Archetype_clear_entities(archetype) ==
    [archetype EXCEPT !.entities = <<>>]

\* -------------------------------------------------------------- Archetypes
\* A plausible bug: the sparse-set list is left out of the identity.
ArchetypeIdentity_table_only(table_components, sparse_set_components) ==
    [table_components |-> table_components,
     sparse_set_components |-> <<>>]

ArchetypeIdentity(table_components, sparse_set_components) ==
    [table_components |-> table_components,
     sparse_set_components |-> sparse_set_components]

\* A plausible bug: the generation does not count the empty archetype.
Archetypes_generation_created(archs) == Len(archs) - 1

Archetypes_generation(archs) == Len(archs)

Archetypes_len(archs) == Len(archs)

Archetypes_get(archs, id) ==
    IF id < Len(archs) THEN Some(archs[id + 1]) ELSE None

\* A mutable slice of the archetype vector: `len` elements from position
\* `start` on.  split_at_mut(mid) panics when mid is beyond the end, and
\* indexing a slice panics when the index is not below its length; a
\* reference to an element is its position in the vector.
Slice_split_at_mut(slice, mid) ==
    IF mid > slice.len THEN None
    ELSE Some(<<[start |-> slice.start, len |-> mid],
                [start |-> slice.start + mid, len |-> slice.len - mid]>>)

Slice_index_mut(slice, index) ==
    IF index >= slice.len THEN None ELSE Some(slice.start + index)

\* The pair of references, or a panic when one of them could not be taken.
BothOrPanic(first, second) ==
    IF first = None \/ second = None
    THEN [ret |-> None, panicked |-> TRUE]
    ELSE [ret |-> Some(<<first[1], second[1]>>), panicked |-> FALSE]

\* A plausible bug: the references are returned in the order of the slices.
Archetypes_get_2_mut_in_slice_order(archs, a, b) ==
    LET whole == [start |-> 0, len |-> Len(archs)]
        split == Slice_split_at_mut(whole, IF a > b THEN a ELSE b)
    IN  IF split = None THEN [ret |-> None, panicked |-> TRUE]
        ELSE BothOrPanic(Slice_index_mut(split[1][1], IF a > b THEN b ELSE a),
                         Slice_index_mut(split[1][2], 0))

\* Archetypes::get_2_mut: the positions of the two archetypes referred to.
Archetypes_get_2_mut(archs, a, b) ==
    LET whole == [start |-> 0, len |-> Len(archs)]
    IN  IF a > b
        THEN LET split == Slice_split_at_mut(whole, a)
             IN  IF split = None THEN [ret |-> None, panicked |-> TRUE]
                 ELSE LET b_slice == split[1][1]
                          a_slice == split[1][2]
                      IN  BothOrPanic(Slice_index_mut(a_slice, 0),
                                      Slice_index_mut(b_slice, b))
        ELSE LET split == Slice_split_at_mut(whole, b)
             IN  IF split = None THEN [ret |-> None, panicked |-> TRUE]
                 ELSE LET a_slice == split[1][1]
                          b_slice == split[1][2]
                      IN  BothOrPanic(Slice_index_mut(a_slice, a),
                                      Slice_index_mut(b_slice, 0))

\* (start..end).map(ArchetypeComponentId) zipped with the component list.
ZipIds(components, start) ==
    [i \in 1..Len(components) |->
        <<components[i], ArchetypeComponentId(start + i - 1)>>]

\* The vacant-entry path of get_id_or_insert: the or_insert_with closure and
\* the insertion of its result into archetype_ids.  The result is the registry
\* afterwards, the returned id, and whether the call panicked.
InsertArchetype(archs, count, ids, table_id, table_components, sparse_set_components) ==
    LET identity == ArchetypeIdentity(table_components, sparse_set_components)
        new_id == ArchetypeId_new(Len(archs))
    IN  IF new_id = None
        THEN [archetypes |-> archs, count |-> count, ids |-> ids,
              ret |-> None, panicked |-> TRUE]
        ELSE LET id == new_id[1]
                 table_start == count
                 sparse_start == table_start + Len(table_components)
                 new_count == sparse_start + Len(sparse_set_components)
             IN  [archetypes |->
                      Append(archs,
                          Archetype_new(id, table_id,
                              ZipIds(table_components, table_start),
                              ZipIds(sparse_set_components, sparse_start))),
                  count |-> new_count,
                  ids |-> [k \in DOMAIN ids \cup {identity} |->
                              IF k = identity THEN id ELSE ids[k]],
                  ret |-> Some(id),
                  panicked |-> FALSE]

\* A plausible bug: no lookup, every call inserts.
Archetypes_get_id_or_insert_always(archs, count, ids, table_id, table_components, sparse_set_components) ==
    InsertArchetype(archs, count, ids, table_id, table_components,
                    sparse_set_components)

\* get_id_or_insert on the registry (archs, count, ids).
Archetypes_get_id_or_insert(archs, count, ids, table_id, table_components, sparse_set_components) ==
    LET identity == ArchetypeIdentity(table_components, sparse_set_components)
    IN  IF identity \in DOMAIN ids
        THEN [archetypes |-> archs, count |-> count, ids |-> ids,
              ret |-> Some(ids[identity]), panicked |-> FALSE]
        ELSE InsertArchetype(archs, count, ids, table_id, table_components,
                             sparse_set_components)

\* A plausible bug: the emptied archetypes are deleted, only the empty
\* archetype is kept.
Archetypes_clear_entities_delete(archs) ==
    [i \in 1..1 |-> Archetype_clear_entities(archs[i])]

Archetypes_clear_entities(archs) ==
    [i \in 1..Len(archs) |-> Archetype_clear_entities(archs[i])]

\* Archetypes::default(): an empty registry on which get_id_or_insert is
\* called once with the empty table and no components.
\* A plausible bug: the registry starts without the empty archetype.
Archetypes_default_unseeded ==
    [archetypes |-> <<>>, count |-> 0, ids |-> <<>>, ret |-> None,
     panicked |-> FALSE]

Archetypes_default ==
    Archetypes_get_id_or_insert(<<>>, 0, <<>>, 0, <<>>, <<>>)

\* ------------------------------------------------------------ the history
IssuedRecord(archs, table_components, sparse_set_components, id) ==
    [id |-> id,
     table_components |-> table_components,
     sparse_set_components |-> sparse_set_components,
     table_id |-> archs[id + 1].table_id,
     components |-> Archetype_components(archs[id + 1])]

TotalEdges(archs) ==
    LET n(i) == Cardinality(DOMAIN archs[i].edges.add_bundle)
                + Cardinality(DOMAIN archs[i].edges.remove_bundle)
                + Cardinality(DOMAIN archs[i].edges.remove_bundle_intersection)
        sum[i \in 0..Len(archs)] == IF i = 0 THEN 0 ELSE sum[i - 1] + n(i)
    IN  sum[Len(archs)]

ArchetypeIdOptions(archs) ==
    {None} \cup {Some(i) : i \in 0..(Len(archs) - 1)}

\* ------------------------------------------------------------------- Init
Init ==
    /\ archetypes = Archetypes_default.archetypes
    /\ archetype_component_count = Archetypes_default.count
    /\ archetype_ids = Archetypes_default.ids
    /\ locations = [e \in Entities |-> None]
    /\ issued = {IssuedRecord(Archetypes_default.archetypes, <<>>, <<>>, i - 1) :
                     i \in DOMAIN Archetypes_default.archetypes}
    /\ last = [op |-> "default", arg |-> <<>>, ret |-> <<>>]
    /\ panicked = FALSE
    /\ tables = <<>>
    /\ query_state = <<>>
    /\ iter = <<>>
    /\ yielded = <<>>
    /\ calls = <<>>
    /\ live = <<>>
    /\ read_only = FALSE
    /\ resources = <<>>
    /\ vec32 = <<>>
    /\ hierarchy = <<>>
    /\ global_transforms = <<>>
    /\ tasks = <<>>
    /\ touched = {}

\* ---------------------------------------------------------------- actions
\* A call of get_id_or_insert with the given arguments.
CallGetIdOrInsert(max_archetypes, table_id, table_components, sparse_set_components) ==
    LET r == Archetypes_get_id_or_insert(archetypes, archetype_component_count,
                 archetype_ids, table_id, table_components, sparse_set_components)
    IN  /\ ~panicked
        /\ UNCHANGED <<qvars, rvars, tvars>>
        /\ \/ ArchetypeIdentity(table_components, sparse_set_components)
                  \in DOMAIN archetype_ids
           \/ Len(archetypes) < max_archetypes
        /\ archetypes' = r.archetypes
        /\ archetype_component_count' = r.count
        /\ archetype_ids' = r.ids
        /\ panicked' = r.panicked
        /\ issued' = IF r.panicked THEN issued
                     ELSE issued \cup {IssuedRecord(r.archetypes, table_components,
                                           sparse_set_components, r.ret[1])}
        /\ last' = [op |-> "get_id_or_insert",
                    arg |-> <<table_id, table_components, sparse_set_components>>,
                    ret |-> r.ret]
        /\ UNCHANGED locations

\* get_id_or_insert as its callers use it: sorted, duplicate-free lists.
GetIdOrInsert(max_archetypes) ==
    \E table_id \in TableIds,
       table_components \in SortedLists(TableComponentIds),
       sparse_set_components \in SortedLists(SparseSetComponentIds) :
        CallGetIdOrInsert(max_archetypes, table_id, table_components,
                          sparse_set_components)

\* get_id_or_insert with sorted lists, every archetype on the same table id.
GetIdOrInsertOneTable(max_archetypes) ==
    \E table_components \in SortedLists(TableComponentIds),
       sparse_set_components \in SortedLists(SparseSetComponentIds) :
        CallGetIdOrInsert(max_archetypes, 0, table_components,
                          sparse_set_components)

\* get_id_or_insert with lists in any order.
GetIdOrInsertAnyOrder(max_archetypes) ==
    \E table_id \in TableIds,
       table_components \in AnyLists(TableComponentIds),
       sparse_set_components \in AnyLists(SparseSetComponentIds) :
        CallGetIdOrInsert(max_archetypes, table_id, table_components,
                          sparse_set_components)

\* Archetype::allocate for an entity that has no location; the caller stores
\* the returned location.
Allocate(max_entity) ==
    \E a \in 0..(Len(archetypes) - 1), entity \in 1..max_entity, table_row \in TableRows :
        LET r == Archetype_allocate(archetypes[a + 1], entity, table_row)
        IN  /\ ~panicked
            /\ UNCHANGED <<qvars, rvars, tvars>>
            /\ locations[entity] = None
            /\ archetypes' = [archetypes EXCEPT ![a + 1] = r.archetype]
            /\ locations' = [locations EXCEPT ![entity] = Some(r.ret)]
            /\ last' = [op |-> "allocate", arg |-> <<a, entity, table_row>>,
                        ret |-> r.ret]
            /\ UNCHANGED <<archetype_component_count, archetype_ids, issued, panicked>>

\* Archetype::swap_remove; an index out of bounds panics.  The caller drops
\* the removed entity's location and moves the swapped entity's to `index`.
SwapRemove ==
    \E a \in 0..(Len(archetypes) - 1) :
      \E index \in 0..Len(archetypes[a + 1].entities) :
        /\ ~panicked
        /\ UNCHANGED <<qvars, rvars, tvars>>
        /\ IF index < Len(archetypes[a + 1].entities)
           THEN LET r == Archetype_swap_remove(archetypes[a + 1], index)
                    removed == archetypes[a + 1].entities[index + 1].entity
                IN  /\ archetypes' = [archetypes EXCEPT ![a + 1] = r.archetype]
                    /\ locations' =
                           [e \in Entities |->
                               IF e = removed THEN None
                               ELSE IF r.ret.swapped_entity = Some(e)
                               THEN Some([locations[e][1] EXCEPT !.index = index])
                               ELSE locations[e]]
                    /\ last' = [op |-> "swap_remove", arg |-> <<a, index>>,
                                ret |-> r.ret]
                    /\ UNCHANGED panicked
           ELSE /\ panicked' = TRUE
                /\ last' = [op |-> "swap_remove", arg |-> <<a, index>>,
                            ret |-> None]
                /\ UNCHANGED <<archetypes, locations>>
        /\ UNCHANGED <<archetype_component_count, archetype_ids, issued>>

\* Archetypes::clear_entities; the caller forgets every location.
ClearEntities ==
    /\ ~panicked
    /\ UNCHANGED <<qvars, rvars, tvars>>
    /\ archetypes' = Archetypes_clear_entities(archetypes)
    /\ locations' = [e \in Entities |-> None]
    /\ last' = [op |-> "clear_entities", arg |-> <<>>, ret |-> <<>>]
    /\ UNCHANGED <<archetype_component_count, archetype_ids, issued, panicked>>

\* An edge insertion may add a new entry only while fewer than MaxEdges
\* entries exist; overwriting an entry is always possible.
EdgeRoom(array, bundle_id, max_edges) ==
    bundle_id \in DOMAIN array \/ TotalEdges(archetypes) < max_edges

InsertAddBundle(max_edges) ==
    \E a \in 0..(Len(archetypes) - 1), bundle_id \in BundleIds,
       archetype_id \in 0..(Len(archetypes) - 1), bundle_status \in BundleStatuses :
        /\ ~panicked
        /\ UNCHANGED <<qvars, rvars, tvars>>
        /\ EdgeRoom(archetypes[a + 1].edges.add_bundle, bundle_id, max_edges)
        /\ archetypes' = [archetypes EXCEPT ![a + 1].edges =
               Edges_insert_add_bundle(@, bundle_id, archetype_id, bundle_status)]
        /\ last' = [op |-> "insert_add_bundle",
                    arg |-> <<a, bundle_id, archetype_id, bundle_status>>,
                    ret |-> <<>>]
        /\ UNCHANGED <<archetype_component_count, archetype_ids, locations,
                       issued, panicked>>

InsertRemoveBundle(max_edges) ==
    \E a \in 0..(Len(archetypes) - 1), bundle_id \in BundleIds,
       archetype_id \in ArchetypeIdOptions(archetypes) :
        /\ ~panicked
        /\ UNCHANGED <<qvars, rvars, tvars>>
        /\ EdgeRoom(archetypes[a + 1].edges.remove_bundle, bundle_id, max_edges)
        /\ archetypes' = [archetypes EXCEPT ![a + 1].edges =
               Edges_insert_remove_bundle(@, bundle_id, archetype_id)]
        /\ last' = [op |-> "insert_remove_bundle",
                    arg |-> <<a, bundle_id, archetype_id>>, ret |-> <<>>]
        /\ UNCHANGED <<archetype_component_count, archetype_ids, locations,
                       issued, panicked>>

InsertRemoveBundleIntersection(max_edges) ==
    \E a \in 0..(Len(archetypes) - 1), bundle_id \in BundleIds,
       archetype_id \in ArchetypeIdOptions(archetypes) :
        /\ ~panicked
        /\ UNCHANGED <<qvars, rvars, tvars>>
        /\ EdgeRoom(archetypes[a + 1].edges.remove_bundle_intersection, bundle_id,
                    max_edges)
        /\ archetypes' = [archetypes EXCEPT ![a + 1].edges =
               Edges_insert_remove_bundle_intersection(@, bundle_id, archetype_id)]
        /\ last' = [op |-> "insert_remove_bundle_intersection",
                    arg |-> <<a, bundle_id, archetype_id>>, ret |-> <<>>]
        /\ UNCHANGED <<archetype_component_count, archetype_ids, locations,
                       issued, panicked>>

\* Archetypes::get_2_mut(a, b), on ids of the registry or beyond it.
ArchetypesGet2Mut(a, b) ==
    LET r == Archetypes_get_2_mut(archetypes, a, b)
    IN  /\ ~panicked
        /\ last' = [op |-> "get_2_mut", arg |-> <<a, b>>, ret |-> r.ret]
        /\ panicked' = r.panicked
        /\ UNCHANGED <<archetypes, archetype_component_count, archetype_ids,
                       locations, issued, qvars, rvars, tvars>>

\* The registry and the entity lists.
Next ==
    \/ GetIdOrInsert(MaxArchetypes)
    \/ Allocate(MaxEntitiesSmall)
    \/ SwapRemove
    \/ ClearEntities

Spec == Init /\ [][Next]_vars

\* Every operation, on a small world.
NextGraph ==
    \/ GetIdOrInsert(MaxArchetypesSmall)
    \/ Allocate(MaxEntitiesGraph)
    \/ SwapRemove
    \/ ClearEntities
    \/ InsertAddBundle(MaxEdgesGraph)
    \/ InsertRemoveBundle(MaxEdgesGraph)
    \/ InsertRemoveBundleIntersection(MaxEdgesGraph)

SpecGraph == Init /\ [][NextGraph]_vars

\* The entity lists, with up to MaxEntities entities.
NextEntities ==
    \/ GetIdOrInsert(MaxArchetypesSmall)
    \/ Allocate(MaxEntities)
    \/ SwapRemove
    \/ ClearEntities

SpecEntities == Init /\ [][NextEntities]_vars

\* The edge caches, with up to MaxEdges entries.
NextEdges ==
    \/ GetIdOrInsert(MaxArchetypesSmall)
    \/ InsertAddBundle(MaxEdges)
    \/ InsertRemoveBundle(MaxEdges)
    \/ InsertRemoveBundleIntersection(MaxEdges)

SpecEdges == Init /\ [][NextEdges]_vars

\* get_id_or_insert called with lists in any order.
NextAnyOrder == GetIdOrInsertAnyOrder(MaxArchetypes)

SpecAnyOrder == Init /\ [][NextAnyOrder]_vars

\* Pairs of archetypes borrowed from a growing registry.
NextGet2Mut ==
    \/ GetIdOrInsert(MaxArchetypes)
    \/ \E a, b \in 0..MaxArchetypes : ArchetypesGet2Mut(a, b)

SpecGet2Mut == Init /\ [][NextGet2Mut]_vars

\* Archetype creation up to the end of the id space.
NextCreate == GetIdOrInsert(MaxArchetypesCreate)

SpecCreate == Init /\ [][NextCreate]_vars

\* Archetype creation up to the end of the ArchetypeId space.
NextFull == GetIdOrInsertOneTable(MaxArchetypesFull)

SpecFull == Init /\ [][NextFull]_vars


\* ---------------------------------------------------- the world of a query
\* Archetype::table_id, Archetype::entities, Archetype::entity_table_row.
Archetype_table_id(archetype) == archetype.table_id

Archetype_entities(archetype) == archetype.entities

Archetype_entity_table_row(archetype, index) ==
    archetype.entities[index + 1].table_row

\* Table::entities and Table::entity_count (storage/table.rs): a table is
\* the list of the entities of its rows, row r at position r + 1.
Table_entities(table) == table.entities

Table_entity_count(table) == Len(table.entities)

\* Entities::get (entity.rs): the location of a live entity.
Entities_get(locs, entity) ==
    IF entity \in DOMAIN locs THEN locs[entity] ELSE None

\* The archetypes of the query worlds: the empty archetype on table 0, and
\* on table 1 the archetype of component 0 and the archetype of components
\* 0 and 2, created by get_id_or_insert in this order.
WorldRegistry ==
    LET r0 == Archetypes_default
        r1 == Archetypes_get_id_or_insert(r0.archetypes, r0.count, r0.ids,
                                          1, <<0>>, <<>>)
    IN  Archetypes_get_id_or_insert(r1.archetypes, r1.count, r1.ids,
                                    1, <<0>>, <<2>>)

WorldArchetypeIds == 0..(Len(WorldRegistry.archetypes) - 1)

WorldTableIds == {Archetype_table_id(WorldRegistry.archetypes[a + 1]) :
                      a \in WorldArchetypeIds}

Perms(S) ==
    {p \in [1..Cardinality(S) -> S] :
        \A i, j \in DOMAIN p : (p[i] = p[j]) => (i = j)}

\* The orders in which the entities of S can be stored: any order when
\* entities were despawned in between (swap_remove), spawn order otherwise.
Orders(S, permute) == IF permute THEN Perms(S) ELSE {SetToSortedSeq(S)}

IndexOf(seq, x) == CHOOSE i \in DOMAIN seq : seq[i] = x

\* Archetype::allocate for each entity of `order`, in this order, each with
\* its row in the table.
RECURSIVE AllocateAll(_, _, _)
AllocateAll(archetype, order, table_order) ==
    IF order = <<>> THEN archetype
    ELSE AllocateAll(
             Archetype_allocate(archetype, Head(order),
                                IndexOf(table_order, Head(order)) - 1).archetype,
             Tail(order), table_order)

\* The world in which entity e lives in archetype place[e] (None: e is not
\* alive), table t stores its entities in the order table_orders[t + 1] and
\* archetype a lists its entities in the order archetype_orders[a + 1].
BuildWorld(place, table_orders, archetype_orders) ==
    [tables |-> [t \in 1..Len(table_orders) |-> [entities |-> table_orders[t]]],
     archetypes |->
         [a \in 1..Len(archetype_orders) |->
             AllocateAll(WorldRegistry.archetypes[a], archetype_orders[a],
                 table_orders[Archetype_table_id(WorldRegistry.archetypes[a]) + 1])],
     locations |->
         [e \in DOMAIN place |->
             IF place[e] = None THEN None
             ELSE Some([archetype_id |-> place[e][1],
                        index |-> IndexOf(archetype_orders[place[e][1] + 1], e) - 1])]]

InArchetype(place, a) == {e \in DOMAIN place : place[e] = Some(a)}

InTable(place, t) ==
    {e \in DOMAIN place :
        /\ place[e] # None
        /\ Archetype_table_id(WorldRegistry.archetypes[place[e][1] + 1]) = t}

\* Every world over the entities E.
Worlds(E, permute) ==
    UNION {
        {BuildWorld(place, <<t0, t1>>, <<a0, a1, a2>>) :
            t0 \in Orders(InTable(place, 0), permute),
            t1 \in Orders(InTable(place, 1), permute),
            a0 \in Orders(InArchetype(place, 0), permute),
            a1 \in Orders(InArchetype(place, 1), permute),
            a2 \in Orders(InArchetype(place, 2), permute)} :
        place \in [E -> {None} \cup {Some(a) : a \in WorldArchetypeIds}]}

\* ------------------------------------------------------------- QueryState
\* QueryState::new_archetype (query/state.rs): an archetype that matches is
\* appended to matched_archetype_ids and set in matched_archetypes, and its
\* table is appended to matched_table_ids unless it is there already.
QueryState_new_archetype(state, archetype) ==
    IF /\ state.with \subseteq Archetype_components(archetype)
       /\ state.without \cap Archetype_components(archetype) = {}
    THEN [state EXCEPT
             !.matched_archetypes = @ \cup {archetype.id},
             !.matched_archetype_ids = Append(@, archetype.id),
             !.matched_table_ids =
                 IF Archetype_table_id(archetype) \in Range(@) THEN @
                 ELSE Append(@, Archetype_table_id(archetype))]
    ELSE state

RECURSIVE QueryState_update_archetypes(_, _, _)
QueryState_update_archetypes(state, archs, from) ==
    IF from > Len(archs) THEN state
    ELSE QueryState_update_archetypes(
             QueryState_new_archetype(state, archs[from]), archs, from + 1)

\* The state of the query that requires the components `with`, excludes the
\* components `without` and whose filter accepts the entities `pass`.  The
\* query is dense when every term is a table component, and archetypal when
\* it filters no row.
QueryState_new(archs, with, without, pass, archetypal) ==
    QueryState_update_archetypes(
        [with |-> with, without |-> without, pass |-> pass,
         IS_DENSE |-> (with \cup without) \subseteq TableComponentIds,
         IS_ARCHETYPAL |-> archetypal,
         matched_archetypes |-> {},
         matched_archetype_ids |-> <<>>,
         matched_table_ids |-> <<>>],
        archs, 1)

\* The components the queries are made of.
QueryTerms == {0, 2}

\* Every query over a world with the entities E: the excluded components
\* are not among the required ones, and an archetypal query accepts every
\* row.
QueryStates(archs, E) ==
    UNION {
        {QueryState_new(archs, with, without, pass, archetypal) :
            without \in SUBSET (QueryTerms \ with),
            pass \in IF archetypal THEN {E} ELSE SUBSET E} :
        with \in SUBSET QueryTerms, archetypal \in BOOLEAN}

\* --------------------------------------------------- QueryIterationCursor
\* WorldQuery::set_table and set_archetype bind a fetch to a span; the fetch
\* then holds the span it reads its rows from.
WorldQuery_set_table(table_id) == Some([table_id |-> table_id])

WorldQuery_set_archetype(archetype, table_id) ==
    Some([archetype_id |-> archetype.id, table_id |-> table_id])

\* F::filter_fetch: the filter's outcome for the entity.
WorldQuery_filter_fetch(qs, entity) == entity \in qs.pass

\* Q::fetch: the item of the row, read through the span the fetch is bound
\* to.
WorldQuery_fetch(fetch, entity, table_row) ==
    [entity |-> entity, table_row |-> table_row, bound |-> fetch]

\* ThinSlicePtr::get: the element at `index`, unchecked.
ThinSlicePtr_get(slice, index) == slice[index + 1]

\* QueryIterationCursor::init.
QueryIterationCursor_init(qs, is_dense) ==
    [IS_DENSE |-> is_dense,
     id_iter |-> IF is_dense THEN qs.matched_table_ids
                 ELSE qs.matched_archetype_ids,
     entities |-> <<>>,
     fetch |-> None,
     filter |-> None,
     current_len |-> 0,
     current_index |-> 0]

\* QueryIterationCursor::init_empty.
QueryIterationCursor_init_empty(qs, is_dense) ==
    [QueryIterationCursor_init(qs, is_dense) EXCEPT !.id_iter = <<>>]

\* A plausible bug: the clone starts again at the first row of its span.
QueryIterationCursor_clone_cursor_rewound(cursor) ==
    [IS_DENSE |-> cursor.IS_DENSE,
     id_iter |-> cursor.id_iter,
     entities |-> cursor.entities,
     fetch |-> cursor.fetch,
     filter |-> cursor.filter,
     current_len |-> cursor.current_len,
     current_index |-> 0]

\* QueryIterationCursor::clone_cursor.
QueryIterationCursor_clone_cursor(cursor) ==
    [IS_DENSE |-> cursor.IS_DENSE,
     id_iter |-> cursor.id_iter,
     entities |-> cursor.entities,
     fetch |-> cursor.fetch,
     filter |-> cursor.filter,
     current_len |-> cursor.current_len,
     current_index |-> cursor.current_index]

\* QueryIterationCursor::peek_last.
QueryIterationCursor_peek_last(cursor) ==
    IF cursor.current_index > 0
    THEN LET index == cursor.current_index - 1
         IN  IF cursor.IS_DENSE
             THEN LET entity == ThinSlicePtr_get(cursor.entities, index)
                  IN  Some(WorldQuery_fetch(cursor.fetch, entity, index))
             ELSE LET archetype_entity == ThinSlicePtr_get(cursor.entities, index)
                  IN  Some(WorldQuery_fetch(cursor.fetch, archetype_entity.entity,
                                            archetype_entity.table_row))
    ELSE None

\* The record of one filter_fetch or fetch call: the span the callee was
\* bound to, the row it was asked for, and the cursor's position.
FetchCall(name, bound, entity, table_row, cursor) ==
    [call |-> name, bound |-> bound, entity |-> entity, table_row |-> table_row,
     current_index |-> cursor.current_index, current_len |-> cursor.current_len]

\* A plausible bug: F::set_table is left out, the filter stays bound to the
\* table before.
BindTable_stale_filter(cursor, table_id, table) ==
    [cursor EXCEPT
        !.id_iter = Tail(@),
        !.fetch = WorldQuery_set_table(table_id),
        !.entities = Table_entities(table),
        !.current_len = Table_entity_count(table),
        !.current_index = 0]

\* The dense branch of QueryIterationCursor::next that binds the next table.
BindTable(cursor, table_id, table) ==
    [cursor EXCEPT
        !.id_iter = Tail(@),
        !.fetch = WorldQuery_set_table(table_id),
        !.filter = WorldQuery_set_table(table_id),
        !.entities = Table_entities(table),
        !.current_len = Table_entity_count(table),
        !.current_index = 0]

\* A plausible bug: the length is one short, the last entity of every
\* archetype is left out.
BindArchetype_short(cursor, archetype, table_id) ==
    [cursor EXCEPT
        !.id_iter = Tail(@),
        !.fetch = WorldQuery_set_archetype(archetype, table_id),
        !.filter = WorldQuery_set_archetype(archetype, table_id),
        !.entities = Archetype_entities(archetype),
        !.current_len = IF Archetype_len(archetype) = 0 THEN 0
                        ELSE Archetype_len(archetype) - 1,
        !.current_index = 0]

\* The sparse branch of QueryIterationCursor::next that binds the next
\* archetype.
BindArchetype(cursor, archetype, table_id) ==
    [cursor EXCEPT
        !.id_iter = Tail(@),
        !.fetch = WorldQuery_set_archetype(archetype, table_id),
        !.filter = WorldQuery_set_archetype(archetype, table_id),
        !.entities = Archetype_entities(archetype),
        !.current_len = Archetype_len(archetype),
        !.current_index = 0]

\* The next id is taken from id_iter (not empty) and its span is bound.
BindNext(cursor, tbls, archs) ==
    LET id == Head(cursor.id_iter)
    IN  IF cursor.IS_DENSE
        THEN BindTable(cursor, id, tbls[id + 1])
        ELSE BindArchetype(cursor, archs[id + 1],
                           Archetype_table_id(archs[id + 1]))

\* The loop of QueryIterationCursor::next: the cursor afterwards, the item
\* returned and the filter_fetch and fetch calls made.
RECURSIVE QueryIterationCursor_loop(_, _, _, _, _)
QueryIterationCursor_loop(cursor, log, tbls, archs, qs) ==
    IF cursor.current_index = cursor.current_len
    THEN IF cursor.id_iter = <<>>
         THEN [cursor |-> cursor, item |-> None, calls |-> log]
         ELSE QueryIterationCursor_loop(BindNext(cursor, tbls, archs), log,
                                        tbls, archs, qs)
    ELSE LET element == ThinSlicePtr_get(cursor.entities, cursor.current_index)
             entity == IF cursor.IS_DENSE THEN element ELSE element.entity
             table_row == IF cursor.IS_DENSE THEN cursor.current_index
                          ELSE element.table_row
             filter_call == FetchCall("filter_fetch", cursor.filter, entity,
                                      table_row, cursor)
             fetch_call == FetchCall("fetch", cursor.fetch, entity, table_row,
                                     cursor)
             advanced == [cursor EXCEPT !.current_index = @ + 1]
         IN  IF ~WorldQuery_filter_fetch(qs, entity)
             THEN QueryIterationCursor_loop(advanced, Append(log, filter_call),
                                            tbls, archs, qs)
             ELSE [cursor |-> advanced,
                   item |-> Some(WorldQuery_fetch(cursor.fetch, entity, table_row)),
                   calls |-> log \o <<filter_call, fetch_call>>]

\* A plausible bug: an exhausted cursor starts over on the matched ids.
QueryIterationCursor_next_rewinding(cursor, tbls, archs, qs) ==
    LET r == QueryIterationCursor_loop(cursor, <<>>, tbls, archs, qs)
    IN  IF r.item = None
        THEN [r EXCEPT !.cursor.id_iter =
                  IF cursor.IS_DENSE THEN qs.matched_table_ids
                  ELSE qs.matched_archetype_ids]
        ELSE r

\* A plausible bug: current_index is not advanced when an item is returned.
QueryIterationCursor_next_no_advance(cursor, tbls, archs, qs) ==
    LET r == QueryIterationCursor_loop(cursor, <<>>, tbls, archs, qs)
    IN  IF r.item = None THEN r
        ELSE [r EXCEPT !.cursor.current_index = @ - 1]

\* A plausible bug: the filter is not consulted.
QueryIterationCursor_next_unfiltered(cursor, tbls, archs, qs) ==
    QueryIterationCursor_loop(cursor, <<>>, tbls, archs,
                              [qs EXCEPT !.pass = Entities])

\* A plausible bug: the iteration ends at an empty table or archetype.
QueryIterationCursor_next_ending_at_empty(cursor, tbls, archs, qs) ==
    IF /\ cursor.current_index = cursor.current_len
       /\ cursor.id_iter # <<>>
       /\ BindNext(cursor, tbls, archs).current_len = 0
    THEN [cursor |-> BindNext(cursor, tbls, archs), item |-> None, calls |-> <<>>]
    ELSE QueryIterationCursor_loop(cursor, <<>>, tbls, archs, qs)

QueryIterationCursor_next(cursor, tbls, archs, qs) ==
    QueryIterationCursor_loop(cursor, <<>>, tbls, archs, qs)

\* ---------------------------------------------------------------- QueryIter
\* QueryIter::new.
QueryIter_new(qs, is_dense) ==
    [kind |-> "QueryIter", cursor |-> QueryIterationCursor_init(qs, is_dense)]

\* QueryIter::next: the iterator afterwards, the item and the calls made.
QueryIter_next(it, tbls, archs, qs) ==
    LET r == QueryIterationCursor_next(it.cursor, tbls, archs, qs)
    IN  [iter |-> [it EXCEPT !.cursor = r.cursor], item |-> r.item,
         calls |-> r.calls, panicked |-> FALSE]

\* QueryIter::size_hint.
RECURSIVE SumLen(_, _)
SumLen(archs, ids) ==
    IF ids = <<>> THEN 0
    ELSE Archetype_len(archs[Head(ids) + 1]) + SumLen(archs, Tail(ids))

QueryIter_size_hint(archs, qs) ==
    LET max_size == SumLen(archs, qs.matched_archetype_ids)
        min_size == IF qs.IS_ARCHETYPAL THEN max_size ELSE 0
    IN  <<min_size, Some(max_size)>>

\* ExactSizeIterator::len of QueryIter, for a query with an archetype filter.
QueryIter_len(archs, qs) == SumLen(archs, qs.matched_archetype_ids)

\* ------------------------------------------------------------ QueryManyIter
\* QueryManyIter::new.
QueryManyIter_new(entity_list) ==
    [kind |-> "QueryManyIter", entity_iter |-> entity_list,
     fetch |-> None, filter |-> None]

\* QueryManyIter::fetch_next_aliased_unchecked: the loop over entity_iter.
RECURSIVE QueryManyIter_loop(_, _, _, _, _, _)
QueryManyIter_loop(it, log, locs, tbls, archs, qs) ==
    IF it.entity_iter = <<>>
    THEN [iter |-> it, item |-> None, calls |-> log, panicked |-> FALSE]
    ELSE LET entity == Head(it.entity_iter)
             rest == [it EXCEPT !.entity_iter = Tail(@)]
             location == Entities_get(locs, entity)
         IN  IF location = None
             THEN QueryManyIter_loop(rest, log, locs, tbls, archs, qs)
             ELSE IF location[1].archetype_id \notin qs.matched_archetypes
             THEN QueryManyIter_loop(rest, log, locs, tbls, archs, qs)
             ELSE LET archetype == archs[location[1].archetype_id + 1]
                      table_id == Archetype_table_id(archetype)
                      bound == [rest EXCEPT
                          !.fetch = WorldQuery_set_archetype(archetype, table_id),
                          !.filter = WorldQuery_set_archetype(archetype, table_id)]
                      table_row == Archetype_entity_table_row(archetype,
                                                              location[1].index)
                      position == [current_index |-> location[1].index,
                                   current_len |-> Archetype_len(archetype)]
                      filter_call == FetchCall("filter_fetch", bound.filter,
                                               entity, table_row, position)
                      fetch_call == FetchCall("fetch", bound.fetch, entity,
                                              table_row, position)
                  IN  IF WorldQuery_filter_fetch(qs, entity)
                      THEN [iter |-> bound,
                            item |-> Some(WorldQuery_fetch(bound.fetch, entity,
                                                           table_row)),
                            calls |-> log \o <<filter_call, fetch_call>>,
                            panicked |-> FALSE]
                      ELSE QueryManyIter_loop(bound, Append(log, filter_call),
                                              locs, tbls, archs, qs)

\* A plausible bug: `return None` where the code has `continue` for an entity
\* that is not alive.
QueryManyIter_fetch_next_ending(it, locs, tbls, archs, qs) ==
    IF it.entity_iter # <<>> /\ Entities_get(locs, Head(it.entity_iter)) = None
    THEN [iter |-> [it EXCEPT !.entity_iter = Tail(@)], item |-> None,
          calls |-> <<>>, panicked |-> FALSE]
    ELSE QueryManyIter_loop(it, <<>>, locs, tbls, archs, qs)

QueryManyIter_fetch_next_aliased_unchecked(it, locs, tbls, archs, qs) ==
    QueryManyIter_loop(it, <<>>, locs, tbls, archs, qs)

\* ----------------------------------------------------- QueryCombinationIter
\* A plausible bug: every cursor is initialised on the matched ids.
QueryCombinationIter_new_all_init(qs, is_dense, K) ==
    [kind |-> "QueryCombinationIter", K |-> K,
     cursors |-> [i \in 1..K |-> QueryIterationCursor_init(qs, is_dense)]]

\* QueryCombinationIter::new: the first cursor is initialised on the matched
\* ids, the others are empty.
QueryCombinationIter_new(qs, is_dense, K) ==
    [kind |-> "QueryCombinationIter", K |-> K,
     cursors |-> [i \in 1..K |->
                     IF i = 1 THEN QueryIterationCursor_init(qs, is_dense)
                     ELSE QueryIterationCursor_init_empty(qs, is_dense)]]

\* The array of the items the cursors returned last, or a panic when
\* peek_last has none (unwrap).
Combination_values(it, log) ==
    LET peeks == [i \in 1..it.K |-> QueryIterationCursor_peek_last(it.cursors[i])]
    IN  IF \E i \in 1..it.K : peeks[i] = None
        THEN [iter |-> it, item |-> None, calls |-> log, panicked |-> TRUE]
        ELSE [iter |-> it, item |-> Some([i \in 1..it.K |-> peeks[i][1]]),
              calls |-> log, panicked |-> FALSE]

\* The two loops of fetch_next_aliased_unchecked.  Combination_outer is the
\* body of `for i in (0..K).rev()` at i, Combination_inner the body of
\* `for j in (i + 1)..K` at j; cursor i of the source is cursors[i + 1].
RECURSIVE Combination_outer(_, _, _, _, _, _)
RECURSIVE Combination_inner(_, _, _, _, _, _, _)
Combination_outer(it, i, log, tbls, archs, qs) ==
    LET r == QueryIterationCursor_next(it.cursors[i + 1], tbls, archs, qs)
        pulled == [it EXCEPT !.cursors[i + 1] = r.cursor]
    IN  IF r.item # None
        THEN Combination_inner(pulled, i, i + 1, log \o r.calls, tbls, archs, qs)
        ELSE IF i > 0
        THEN Combination_outer(pulled, i - 1, log \o r.calls, tbls, archs, qs)
        ELSE [iter |-> pulled, item |-> None, calls |-> log \o r.calls,
              panicked |-> FALSE]

Combination_inner(it, i, j, log, tbls, archs, qs) ==
    IF j >= it.K
    THEN Combination_values(it, log)
    ELSE LET cloned == QueryIterationCursor_clone_cursor(it.cursors[j])
             r == QueryIterationCursor_next(cloned, tbls, archs, qs)
             pulled == [it EXCEPT !.cursors[j + 1] = r.cursor]
         IN  IF r.item # None
             THEN Combination_inner(pulled, i, j + 1, log \o r.calls,
                                    tbls, archs, qs)
             ELSE IF i > 0
             THEN Combination_outer(pulled, i - 1, log \o r.calls,
                                    tbls, archs, qs)
             ELSE [iter |-> pulled, item |-> None, calls |-> log \o r.calls,
                   panicked |-> FALSE]

\* A plausible bug: when no combination is left the cursors are set up anew.
QueryCombinationIter_fetch_next_rewinding(it, tbls, archs, qs) ==
    IF it.K = 0
    THEN [iter |-> it, item |-> None, calls |-> <<>>, panicked |-> FALSE]
    ELSE LET r == Combination_outer(it, it.K - 1, <<>>, tbls, archs, qs)
         IN  IF r.item = None
             THEN [r EXCEPT !.iter.cursors =
                      [i \in 1..it.K |->
                          IF i = 1
                          THEN QueryIterationCursor_init(qs, it.cursors[1].IS_DENSE)
                          ELSE QueryIterationCursor_init_empty(qs,
                                   it.cursors[1].IS_DENSE)]]
             ELSE r

QueryCombinationIter_fetch_next_aliased_unchecked(it, tbls, archs, qs) ==
    IF it.K = 0
    THEN [iter |-> it, item |-> None, calls |-> <<>>, panicked |-> FALSE]
    ELSE Combination_outer(it, it.K - 1, <<>>, tbls, archs, qs)

\* usize::checked_mul.
Usize_checked_mul(a, b) == IF a * b > USIZE_MAX THEN None ELSE Some(a * b)

\* choose(n, k) of size_hint: the fold over (1..=k).zip((n - k + 1..=n).rev())
\* from its step-th pair on.
RECURSIVE Choose_fold(_, _, _, _)
Choose_fold(acc, step, n, k) ==
    IF step > k THEN Some(acc)
    ELSE LET product == Usize_checked_mul(acc, n - step + 1)
         IN  IF product = None THEN None
             ELSE Choose_fold(product[1] \div step, step + 1, n, k)

choose(n, k) == Choose_fold(1, 1, n, k)

Min(a, b) == IF a < b THEN a ELSE b

\* QueryCombinationIter::size_hint.
QueryCombinationIter_size_hint(it, archs, qs) ==
    LET max_size == SumLen(archs, qs.matched_archetype_ids)
    IN  IF it.K = 0 THEN <<0, Some(0)>>
        ELSE IF max_size < it.K THEN <<0, Some(0)>>
        ELSE IF max_size = it.K THEN <<1, Some(1)>>
        ELSE LET smallest == Min(it.K, max_size - it.K)
                 max_combinations == choose(max_size, smallest)
                 known_max == IF max_combinations = None THEN USIZE_MAX
                              ELSE max_combinations[1]
                 min_combinations == IF qs.IS_ARCHETYPAL THEN known_max ELSE 0
             IN  <<min_combinations, max_combinations>>

\* ------------------------------------------------------- iterating a query
\* The number of times a history holds None.
NoneCount(history) == Cardinality({i \in DOMAIN history : history[i] = None})

\* The items of a returned value: those of the array of a combination, the
\* one item of the other iterators, none of None.
Returned_items(it, ret) ==
    IF ret = None THEN <<>>
    ELSE IF it.kind = "QueryCombinationIter" THEN ret[1]
    ELSE <<ret[1]>>

\* A plausible bug: fetch_next returns the items at the lifetime 'w of
\* fetch_next_aliased_unchecked, without Q::shrink.
Held_shrunk_unshrunk(held, items) == held \o items

\* fetch_next: `(&mut self) -> Option<QueryItem<'_, Q>>` with Q::shrink.  The
\* items borrow the iterator, so the call, which borrows it mutably, is only
\* accepted once the items returned before are gone.
Held_shrunk(held, items) == items

\* Iterator::next: `Item = QueryItem<'w, Q>`.  The items outlive the call and
\* stay with the caller next to the ones returned before.
Held_aliased(held, items) == held \o items

\* A world over the entities E with a query over it whose access is one of
\* `access`, before any iterator is made.
InitAccess(E, permute, access) ==
    \E world \in Worlds(E, permute) :
      \E qs \in QueryStates(world.archetypes, E) :
        /\ archetypes = world.archetypes
        /\ archetype_component_count = WorldRegistry.count
        /\ archetype_ids = WorldRegistry.ids
        /\ locations = world.locations
        /\ tables = world.tables
        /\ query_state = qs
        /\ issued = {}
        /\ last = [op |-> "new", arg |-> <<>>, ret |-> <<>>]
        /\ panicked = FALSE
        /\ calls = <<>>
        /\ live = <<>>
        /\ read_only \in access
        /\ resources = <<>>
        /\ vec32 = <<>>
        /\ hierarchy = <<>>
        /\ global_transforms = <<>>
        /\ tasks = <<>>
        /\ touched = {}

\* A world over the entities E with a query with mutable access over it.
InitWorld(E, permute) == InitAccess(E, permute, {FALSE})

\* The result r of a call on iterator i is stored: the iterator afterwards,
\* the value returned, the calls made and the items the caller holds.
Returned(i, op, r, held) ==
    /\ ~panicked
    /\ NoneCount(yielded[i]) < MaxNoneReturns
    /\ iter' = [iter EXCEPT ![i] = r.iter]
    /\ yielded' = [yielded EXCEPT ![i] = Append(@, r.item)]
    /\ calls' = r.calls
    /\ last' = [op |-> op, arg |-> <<i>>, ret |-> r.item]
    /\ panicked' = r.panicked
    /\ live' = held
    /\ UNCHANGED <<archetypes, archetype_component_count, archetype_ids,
                   locations, issued, tables, query_state, read_only,
                   rvars, tvars>>

\* QueryIter::next on iterator i.
QueryIterNext(i) ==
    /\ iter[i].kind = "QueryIter"
    /\ LET r == QueryIter_next(iter[i], tables, archetypes, query_state)
       IN  Returned(i, "next", r,
                    Held_aliased(live, Returned_items(iter[i], r.item)))

\* QueryManyIter::fetch_next on iterator i.
QueryManyIterFetchNext(i) ==
    /\ iter[i].kind = "QueryManyIter"
    /\ LET r == QueryManyIter_fetch_next_aliased_unchecked(iter[i], locations,
                    tables, archetypes, query_state)
       IN  Returned(i, "fetch_next", r,
                    Held_shrunk(live, Returned_items(iter[i], r.item)))

\* Iterator::next of QueryManyIter on iterator i, implemented for
\* Q: ReadOnlyWorldQuery only.
QueryManyIterNext(i) ==
    /\ iter[i].kind = "QueryManyIter"
    /\ read_only
    /\ LET r == QueryManyIter_fetch_next_aliased_unchecked(iter[i], locations,
                    tables, archetypes, query_state)
       IN  Returned(i, "next", r,
                    Held_aliased(live, Returned_items(iter[i], r.item)))

\* QueryCombinationIter::fetch_next on iterator i.
QueryCombinationIterFetchNext(i) ==
    /\ iter[i].kind = "QueryCombinationIter"
    /\ LET r == QueryCombinationIter_fetch_next_aliased_unchecked(iter[i],
                    tables, archetypes, query_state)
       IN  Returned(i, "fetch_next", r,
                    Held_shrunk(live, Returned_items(iter[i], r.item)))

\* Iterator::next of QueryCombinationIter on iterator i, implemented for
\* Q: ReadOnlyWorldQuery only.
QueryCombinationIterNext(i) ==
    /\ iter[i].kind = "QueryCombinationIter"
    /\ read_only
    /\ LET r == QueryCombinationIter_fetch_next_aliased_unchecked(iter[i],
                    tables, archetypes, query_state)
       IN  Returned(i, "next", r,
                    Held_aliased(live, Returned_items(iter[i], r.item)))

\* QueryCombinationIter::size_hint on iterator i.
QueryCombinationIterSizeHint(i) ==
    /\ iter[i].kind = "QueryCombinationIter"
    /\ ~panicked
    /\ last' = [op |-> "size_hint", arg |-> <<i>>,
                ret |-> QueryCombinationIter_size_hint(iter[i], archetypes,
                                                       query_state)]
    /\ UNCHANGED <<archetypes, archetype_component_count, archetype_ids,
                   locations, issued, panicked, qvars, rvars, tvars>>

\* A QueryIter over a query, in the strategy of the query.
InitQueryIter ==
    /\ InitWorld(1..MaxQueryEntities, TRUE)
    /\ iter = <<QueryIter_new(query_state, query_state.IS_DENSE)>>
    /\ yielded = <<<<>>>>

NextQueryIter == QueryIterNext(1)

SpecQueryIter == InitQueryIter /\ [][NextQueryIter]_vars

\* A dense query walked by a dense and by a sparse cursor.
InitStrategies ==
    /\ InitWorld(1..MaxQueryEntities, TRUE)
    /\ query_state.IS_DENSE
    /\ iter = <<QueryIter_new(query_state, TRUE), QueryIter_new(query_state, FALSE)>>
    /\ yielded = <<<<>>, <<>>>>

NextStrategies == \E i \in 1..2 : QueryIterNext(i)

SpecStrategies == InitStrategies /\ [][NextStrategies]_vars

\* A QueryManyIter over a list of entities, alive or not, with repetitions.
InitManyIter ==
    /\ InitWorld(1..MaxManyEntities, TRUE)
    /\ \E entity_list \in UNION {[1..n -> 1..MaxManyEntities] : n \in 0..MaxManyLen} :
          iter = <<QueryManyIter_new(entity_list)>>
    /\ yielded = <<<<>>>>

NextManyIter == QueryManyIterFetchNext(1)

SpecManyIter == InitManyIter /\ [][NextManyIter]_vars

\* The iterators that call filter_fetch and fetch: a QueryIter or a
\* QueryManyIter.
InitFetchCalls == InitQueryIter \/ InitManyIter

NextFetchCalls ==
    \/ QueryIterNext(1)
    \/ QueryManyIterFetchNext(1)

SpecFetchCalls == InitFetchCalls /\ [][NextFetchCalls]_vars

\* A QueryCombinationIter of K cursors, entities stored in spawn order.
InitCombinations ==
    /\ InitWorld(1..MaxCombinationEntities, FALSE)
    /\ \E K \in 0..MaxK :
          iter = <<QueryCombinationIter_new(query_state, query_state.IS_DENSE, K)>>
    /\ yielded = <<<<>>>>

NextCombinations ==
    \/ QueryCombinationIterFetchNext(1)
    \/ QueryCombinationIterSizeHint(1)

SpecCombinations == InitCombinations /\ [][NextCombinations]_vars

\* A QueryManyIter or a QueryCombinationIter over a query with mutable or with
\* read-only access, items taken through fetch_next and Iterator::next.
InitBorrows ==
    /\ InitAccess(1..MaxBorrowEntities, FALSE, BOOLEAN)
    /\ \/ \E entity_list \in UNION {[1..n -> 1..MaxBorrowEntities] : n \in 0..MaxManyLen} :
             iter = <<QueryManyIter_new(entity_list)>>
       \/ \E K \in 0..MaxK :
             iter = <<QueryCombinationIter_new(query_state, query_state.IS_DENSE, K)>>
    /\ yielded = <<<<>>>>

NextBorrows ==
    \/ QueryManyIterFetchNext(1)
    \/ QueryManyIterNext(1)
    \/ QueryCombinationIterFetchNext(1)
    \/ QueryCombinationIterNext(1)

SpecBorrows == InitBorrows /\ [][NextBorrows]_vars


\* ------------------------------------------------------------------- Tick
Ticks == 0..U32_MAX

\* Tick::new.
Tick_new(tick) == tick

\* u32::wrapping_sub.
U32_wrapping_sub(a, b) == (a - b) % (U32_MAX + 1)

\* Tick::check_tick: a tick older than MAX_CHANGE_AGE is set to that age.
Tick_check_tick(tick, change_tick) ==
    LET age == U32_wrapping_sub(change_tick, tick)
    IN  IF age > MAX_CHANGE_AGE
        THEN U32_wrapping_sub(change_tick, MAX_CHANGE_AGE)
        ELSE tick

\* Tick::is_older_than: the change report.  TRUE when the tick was set after
\* the system ran last, both ages taken relative to the world tick and
\* clamped.
Tick_is_older_than(tick, last_change_tick, change_tick) ==
    LET ticks_since_insert == Min(U32_wrapping_sub(change_tick, tick), MAX_CHANGE_AGE)
        ticks_since_system == Min(U32_wrapping_sub(change_tick, last_change_tick),
                                  MAX_CHANGE_AGE)
    IN  ticks_since_system > ticks_since_insert

\* ---------------------------------------------------------------- BlobBox
\* The type-erased box of one value: None while it holds no value.
BlobBox_new == None

BlobBox_is_present(data) == data # None

BlobBox_get_ptr(data) == data

\* BlobBox::initialize: the value is moved into the empty box.
BlobBox_initialize(data, value) == Some(value)

\* BlobBox::replace: the old value is dropped, the new one moved in.
BlobBox_replace(data, value) == Some(value)

\* BlobBox::swap_remove_and_forget_unchecked: the value is moved out to the
\* caller and the box holds none.
BlobBox_swap_remove_and_forget_unchecked(data) == [data |-> None, value |-> data[1]]

\* BlobBox::clear: the value, if any, is dropped.
BlobBox_clear(data) == None

\* ------------------------------------------------------------ ResourceData
ResourceIds == 0..(MaxResourceIds - 1)
Values == 1..MaxValues

\* ResourceData::is_present.
ResourceData_is_present(slot) == BlobBox_is_present(slot.data)

\* ResourceData::id.
ResourceData_id(slot) == slot.id

\* ResourceData::get_data.
ResourceData_get_data(slot) == BlobBox_get_ptr(slot.data)

\* ResourceData::get_ticks.
ResourceData_get_ticks(slot) ==
    IF ResourceData_is_present(slot)
    THEN Some([added |-> slot.added_tick, changed |-> slot.changed_tick])
    ELSE None

\* ResourceData::get_with_ticks: the pointer with the two tick cells.
ResourceData_get_with_ticks(slot) ==
    IF BlobBox_get_ptr(slot.data) = None THEN None
    ELSE Some(<<BlobBox_get_ptr(slot.data)[1],
                [added |-> slot.added_tick, changed |-> slot.changed_tick]>>)

\* The values a box hands to the drop function of the type: BlobBox::replace
\* drops the value it held, BlobBox::clear drops the value if there is one,
\* initialize and swap_remove_and_forget_unchecked drop nothing.
BlobBox_replace_drops(data) == <<data[1]>>

BlobBox_clear_drops(data) == IF data = None THEN <<>> ELSE <<data[1]>>

\* The values dropped by ResourceData::insert and insert_with_ticks: the
\* value replaced, none when the slot was empty.
ResourceData_insert_drops(slot) ==
    IF ResourceData_is_present(slot) THEN BlobBox_replace_drops(slot.data)
    ELSE <<>>

\* The values dropped by ResourceData::remove_and_drop.
ResourceData_remove_and_drop_drops(slot) == BlobBox_clear_drops(slot.data)

\* A plausible bug: only the changed tick is stamped.
ResourceData_insert_changed_only(slot, value, change_tick) ==
    [slot EXCEPT !.data = Some(value), !.changed_tick = Tick_new(change_tick)]

\* ResourceData::insert.
ResourceData_insert(slot, value, change_tick) ==
    LET data == IF ResourceData_is_present(slot)
                THEN BlobBox_replace(slot.data, value)
                ELSE BlobBox_initialize(slot.data, value)
        tick == Tick_new(change_tick)
    IN  [slot EXCEPT !.data = data, !.added_tick = tick, !.changed_tick = tick]

\* A plausible bug: the ticks handed in are dropped and the value is stamped
\* as new.
ResourceData_insert_with_ticks_restamped(slot, value, change_ticks) ==
    [slot EXCEPT !.data = Some(value), !.added_tick = Tick_new(0),
                 !.changed_tick = Tick_new(0)]

\* ResourceData::insert_with_ticks.
ResourceData_insert_with_ticks(slot, value, change_ticks) ==
    LET data == IF ResourceData_is_present(slot)
                THEN BlobBox_replace(slot.data, value)
                ELSE BlobBox_initialize(slot.data, value)
    IN  [slot EXCEPT !.data = data, !.added_tick = change_ticks.added,
                     !.changed_tick = change_ticks.changed]

\* A plausible bug: the value is handed out and stays in the slot.
ResourceData_remove_copying(slot) ==
    IF ResourceData_is_present(slot)
    THEN [slot |-> slot,
          ret |-> Some(<<slot.data[1],
                         [added |-> slot.added_tick, changed |-> slot.changed_tick]>>)]
    ELSE [slot |-> slot, ret |-> None]

\* ResourceData::remove: the slot afterwards and the value returned.
ResourceData_remove(slot) ==
    IF ResourceData_is_present(slot)
    THEN LET moved == BlobBox_swap_remove_and_forget_unchecked(slot.data)
         IN  [slot |-> [slot EXCEPT !.data = moved.data],
              ret |-> Some(<<moved.value,
                             [added |-> slot.added_tick,
                              changed |-> slot.changed_tick]>>)]
    ELSE [slot |-> slot, ret |-> None]

\* ResourceData::remove_and_drop.
ResourceData_remove_and_drop(slot) == [slot EXCEPT !.data = BlobBox_clear(@)]

\* A plausible bug: the sweep checks the changed tick only.
ResourceData_check_change_ticks_changed_only(slot, change_tick) ==
    [slot EXCEPT !.changed_tick = Tick_check_tick(@, change_tick)]

\* ResourceData::check_change_ticks.
ResourceData_check_change_ticks(slot, change_tick) ==
    [slot EXCEPT !.added_tick = Tick_check_tick(@, change_tick),
                 !.changed_tick = Tick_check_tick(@, change_tick)]

\* --------------------------------------------------------------- Resources
\* Resources::len.
Resources_len(res) == Cardinality(DOMAIN res)

\* Resources::get.
Resources_get(res, component_id) ==
    IF component_id \in DOMAIN res THEN Some(res[component_id]) ELSE None

\* Components::get_info: the registered components are the ResourceIds.
Components_get_info(component_id) ==
    IF component_id \in ResourceIds THEN Some(component_id) ELSE None

\* The closure handed to initialize_with by the world: the next
\* ArchetypeComponentId of the counter.
New_archetype_component_id(count) ==
    [id |-> ArchetypeComponentId_new_unchecked(count), count |-> count + 1]

\* A plausible bug: the slot is made anew on every call.
Resources_initialize_with_always(res, component_id, count) ==
    IF Components_get_info(component_id) = None
    THEN [resources |-> res, count |-> count, panicked |-> TRUE]
    ELSE LET f == New_archetype_component_id(count)
         IN  [resources |-> [c \in DOMAIN res \cup {component_id} |->
                                IF c = component_id
                                THEN [data |-> BlobBox_new, added_tick |-> Tick_new(0),
                                      changed_tick |-> Tick_new(0), id |-> f.id]
                                ELSE res[c]],
              count |-> f.count, panicked |-> FALSE]

\* Resources::initialize_with: SparseSet::get_or_insert_with runs the closure
\* only when the id has no slot; the closure unwraps get_info before it calls
\* f.
Resources_initialize_with(res, component_id, count) ==
    IF component_id \in DOMAIN res
    THEN [resources |-> res, count |-> count, panicked |-> FALSE]
    ELSE IF Components_get_info(component_id) = None
    THEN [resources |-> res, count |-> count, panicked |-> TRUE]
    ELSE LET f == New_archetype_component_id(count)
         IN  [resources |-> [c \in DOMAIN res \cup {component_id} |->
                                IF c = component_id
                                THEN [data |-> BlobBox_new, added_tick |-> Tick_new(0),
                                      changed_tick |-> Tick_new(0), id |-> f.id]
                                ELSE res[c]],
              count |-> f.count, panicked |-> FALSE]

\* A plausible bug: the sweep stops after the first slot.
Resources_check_change_ticks_first_only(res, change_tick) ==
    [c \in DOMAIN res |->
        IF \A d \in DOMAIN res : c <= d
        THEN ResourceData_check_change_ticks(res[c], change_tick)
        ELSE res[c]]

\* Resources::check_change_ticks: every slot is swept.
Resources_check_change_ticks(res, change_tick) ==
    [c \in DOMAIN res |-> ResourceData_check_change_ticks(res[c], change_tick)]

\* ------------------------------------------------- operating the resources
\* The part of the state the resource operations leave alone.
ResourceFrame ==
    UNCHANGED <<archetypes, archetype_ids, locations, issued, qvars, tvars, vec32>>

\* Resources::initialize_with(component_id, components, f).
ResourcesInitializeWith(component_id) ==
    /\ ~panicked
    /\ LET r == Resources_initialize_with(resources, component_id,
                                          archetype_component_count)
       IN  /\ resources' = r.resources
           /\ archetype_component_count' = r.count
           /\ panicked' = r.panicked
           /\ last' = [op |-> "initialize_with", arg |-> <<component_id>>,
                       ret |-> IF r.panicked THEN None
                               ELSE Some(r.resources[component_id])]
    /\ ResourceFrame

\* ResourceData::insert(value, change_tick) on the slot of component_id.  The
\* history keeps whether a value was replaced.
ResourceDataInsert(component_id, value, change_tick) ==
    /\ ~panicked
    /\ component_id \in DOMAIN resources
    /\ resources' = [resources EXCEPT ![component_id] =
                        ResourceData_insert(@, value, change_tick)]
    /\ last' = [op |-> "insert", arg |-> <<component_id, value, change_tick>>,
                ret |-> <<>>,
                replaced |-> ResourceData_is_present(resources[component_id]),
                dropped |-> ResourceData_insert_drops(resources[component_id])]
    /\ UNCHANGED <<archetype_component_count, panicked>>
    /\ ResourceFrame

\* ResourceData::insert_with_ticks(value, change_ticks) on the slot of
\* component_id.  The history keeps whether the value and the ticks are those
\* a remove on the slot returned just before.
ResourceDataInsertWithTicks(component_id, value, change_ticks) ==
    /\ ~panicked
    /\ component_id \in DOMAIN resources
    /\ resources' = [resources EXCEPT ![component_id] =
                        ResourceData_insert_with_ticks(@, value, change_ticks)]
    /\ last' = [op |-> "insert_with_ticks",
                arg |-> <<component_id, value, change_ticks>>, ret |-> <<>>,
                reinserted |-> /\ last.op = "remove"
                               /\ last.arg = <<component_id>>
                               /\ last.ret = Some(<<value, change_ticks>>),
                dropped |-> ResourceData_insert_drops(resources[component_id])]
    /\ UNCHANGED <<archetype_component_count, panicked>>
    /\ ResourceFrame

\* ResourceData::remove on the slot of component_id.
ResourceDataRemove(component_id) ==
    /\ ~panicked
    /\ component_id \in DOMAIN resources
    /\ LET r == ResourceData_remove(resources[component_id])
       IN  /\ resources' = [resources EXCEPT ![component_id] = r.slot]
           /\ last' = [op |-> "remove", arg |-> <<component_id>>, ret |-> r.ret,
                       dropped |-> <<>>]
    /\ UNCHANGED <<archetype_component_count, panicked>>
    /\ ResourceFrame

\* ResourceData::remove_and_drop on the slot of component_id.
ResourceDataRemoveAndDrop(component_id) ==
    /\ ~panicked
    /\ component_id \in DOMAIN resources
    /\ resources' = [resources EXCEPT ![component_id] =
                        ResourceData_remove_and_drop(@)]
    /\ last' = [op |-> "remove_and_drop", arg |-> <<component_id>>, ret |-> <<>>,
                dropped |-> ResourceData_remove_and_drop_drops(resources[component_id])]
    /\ UNCHANGED <<archetype_component_count, panicked>>
    /\ ResourceFrame

\* Resources::check_change_ticks(change_tick).
ResourcesCheckChangeTicks(change_tick) ==
    /\ ~panicked
    /\ resources' = Resources_check_change_ticks(resources, change_tick)
    /\ last' = [op |-> "check_change_ticks", arg |-> <<change_tick>>, ret |-> <<>>]
    /\ UNCHANGED <<archetype_component_count, panicked>>
    /\ ResourceFrame

\* The ticks handed to the store where their age does not matter: the first
\* two and the last of the tick space.
TickSamples == {0, 1, U32_MAX}

\* The operations that create, fill and empty the slots, on registered and
\* unregistered component ids.
NextResources ==
    \/ \E component_id \in 0..MaxResourceIds : ResourcesInitializeWith(component_id)
    \/ \E component_id \in ResourceIds, value \in Values, change_tick \in TickSamples :
          ResourceDataInsert(component_id, value, change_tick)
    \/ \E component_id \in ResourceIds, value \in Values, added, changed \in TickSamples :
          ResourceDataInsertWithTicks(component_id, value,
                                      [added |-> added, changed |-> changed])
    \/ \E component_id \in ResourceIds : ResourceDataRemove(component_id)
    \/ \E component_id \in ResourceIds : ResourceDataRemoveAndDrop(component_id)

SpecResources == Init /\ [][NextResources]_vars

\* The sweep of the change ticks over slots stamped with every tick, by
\* insert and by insert_with_ticks, or not filled yet.
NextTicks ==
    \/ \E component_id \in ResourceIds : ResourcesInitializeWith(component_id)
    \/ \E component_id \in ResourceIds, change_tick \in Ticks :
          ResourceDataInsert(component_id, 1, change_tick)
    \/ \E component_id \in ResourceIds, added, changed \in Ticks :
          ResourceDataInsertWithTicks(component_id, 1,
                                      [added |-> added, changed |-> changed])
    \/ \E change_tick \in Ticks : ResourcesCheckChangeTicks(change_tick)

SpecTicks == Init /\ [][NextTicks]_vars

\* -------------------------------------------------------------------- Vec32
\* ThinArrayPtr (storage/thin_array_ptr.rs): an allocation of cells without a
\* length of its own; a cell holds a value or is uninitialised (None).
ThinArrayPtr_empty == <<>>

ThinArrayPtr_with_capacity(capacity) == [i \in 1..capacity |-> None]

\* ThinArrayPtr::alloc: a fresh allocation takes the place of the old one.
ThinArrayPtr_alloc(data, count) == [i \in 1..count |-> None]

\* ThinArrayPtr::realloc: the cells are kept, the allocation has new_capacity
\* cells.
ThinArrayPtr_realloc(data, current_capacity, new_capacity) ==
    [i \in 1..new_capacity |-> IF i <= Len(data) THEN data[i] ELSE None]

\* Reading a cell.  A read outside the allocation or of an uninitialised cell
\* is undefined behaviour: it may give any value.
ThinArrayPtr_read(data, index) ==
    IF index < Len(data) /\ data[index + 1] # None THEN {data[index + 1][1]}
    ELSE Values

\* Writing a cell.  A write outside the allocation is undefined behaviour: the
\* value lands in memory the vector does not own, or the process faults.
ThinArrayPtr_write(data, index, value) ==
    IF index < Len(data)
    THEN {[data |-> [data EXCEPT ![index + 1] = Some(value)], crashed |-> FALSE]}
    ELSE {[data |-> data, crashed |-> FALSE], [data |-> data, crashed |-> TRUE]}

\* ThinArrayPtr::clear_elements: the first `len` cells are dropped.
ThinArrayPtr_clear_elements(data, len) ==
    [i \in 1..Len(data) |-> IF i <= len THEN None ELSE data[i]]

\* ThinArrayPtr::swap_remove_unchecked(index, len): the value of cell `index`
\* is moved out and the last of the `len` cells is copied into its place.
ThinArrayPtr_swap_remove_unchecked(data, index, len) ==
    UNION {UNION {IF index = len - 1
                  THEN {[data |-> data, crashed |-> FALSE, value |-> removed]}
                  ELSE {[data |-> w.data, crashed |-> w.crashed, value |-> removed] :
                           w \in ThinArrayPtr_write(data, index, moved)} :
                     moved \in ThinArrayPtr_read(data, len - 1)} :
           removed \in ThinArrayPtr_read(data, index)}

\* u32::checked_add and u32::next_power_of_two (which wraps to 0 in a build
\* without overflow checks).
U32_checked_add(a, b) == IF a + b > U32_MAX THEN None ELSE Some(a + b)

RECURSIVE PowerOfTwoFrom(_, _)
PowerOfTwoFrom(p, n) == IF p >= n THEN p ELSE PowerOfTwoFrom(2 * p, n)

U32_next_power_of_two(n) ==
    IF PowerOfTwoFrom(1, n) > U32_MAX THEN 0 ELSE PowerOfTwoFrom(1, n)

\* Vec32::new and Vec32::with_capacity.
Vec32_new == [data |-> ThinArrayPtr_empty, length |-> 0, capacity |-> 0]

Vec32_with_capacity(capacity) ==
    [data |-> ThinArrayPtr_with_capacity(capacity), length |-> 0,
     capacity |-> capacity]

Vec32_len(vec) == vec.length

Vec32_capacity(vec) == vec.capacity

\* The body shared by reserve and reserve_for_push: one cell for an empty
\* vector, else the next power of two of the capacity.
Vec32_grow(vec) ==
    IF vec.length = 0
    THEN [vec EXCEPT !.data = ThinArrayPtr_alloc(@, 1), !.capacity = 1]
    ELSE LET new_capacity == U32_next_power_of_two(vec.capacity)
         IN  [vec EXCEPT !.data = ThinArrayPtr_realloc(@, vec.capacity, new_capacity),
                         !.capacity = new_capacity]

\* Vec32::reserve_for_push.
Vec32_reserve_for_push(vec) ==
    IF vec.length = vec.capacity THEN Vec32_grow(vec) ELSE vec

\* The outcomes of an operation: the vector afterwards, the value returned
\* and whether the call panicked or faulted.
Outcome(vec, ret, crashed) == [vec |-> vec, ret |-> ret, panicked |-> crashed]

\* Vec32::reserve.
Vec32_reserve(vec, additional) ==
    LET wanted == U32_checked_add(vec.length, additional)
    IN  IF wanted = None THEN {Outcome(vec, <<>>, TRUE)}
        ELSE IF wanted[1] > vec.capacity THEN {Outcome(Vec32_grow(vec), <<>>, FALSE)}
        ELSE {Outcome(vec, <<>>, FALSE)}

\* Vec32::push: room is made, the value is written at index `length` and the
\* length is incremented.
Vec32_push(vec, value) ==
    LET reserved == Vec32_reserve_for_push(vec)
    IN  {IF w.crashed THEN Outcome(reserved, <<>>, TRUE)
         ELSE IF U32_checked_add(reserved.length, 1) = None
         THEN Outcome([reserved EXCEPT !.data = w.data], <<>>, TRUE)
         ELSE Outcome([reserved EXCEPT !.data = w.data, !.length = @ + 1],
                      <<>>, FALSE) :
            w \in ThinArrayPtr_write(reserved.data, reserved.length, value)}

\* Vec32::push_unchecked, called with room for the length to grow.
Vec32_push_unchecked(vec, value) == Vec32_push(vec, value)

\* Vec32::clear.
Vec32_clear(vec) ==
    {Outcome([vec EXCEPT !.data = ThinArrayPtr_clear_elements(@, vec.length),
                         !.length = 0], <<>>, FALSE)}

\* Vec32::get and Vec32::get_mut.
Vec32_get(vec, index) ==
    IF index < vec.length
    THEN {Outcome(vec, Some(x), FALSE) : x \in ThinArrayPtr_read(vec.data, index)}
    ELSE {Outcome(vec, None, FALSE)}

Vec32_get_mut(vec, index) == Vec32_get(vec, index)

\* Vec32::swap_remove_unchecked: the length is handed to the array and is
\* not written.
Vec32_swap_remove_unchecked(vec, index) ==
    {Outcome([vec EXCEPT !.data = r.data], Some(r.value), r.crashed) :
        r \in ThinArrayPtr_swap_remove_unchecked(vec.data, index, vec.length)}

\* An operation on the vector took one of its outcomes; the history keeps
\* the vector it was called on.
Vec32Step(op, arg, outcomes) ==
    /\ \E r \in outcomes :
          /\ vec32' = r.vec
          /\ last' = [op |-> op, arg |-> arg, ret |-> r.ret, before |-> vec32]
          /\ panicked' = r.panicked
    /\ UNCHANGED <<archetypes, archetype_component_count, archetype_ids,
                   locations, issued, qvars, resources, tvars>>

Vec32Push(value) ==
    /\ ~panicked
    /\ Vec32Step("push", <<value>>, Vec32_push(vec32, value))

Vec32PushUnchecked(value) ==
    /\ ~panicked
    /\ vec32.length < U32_MAX
    /\ Vec32Step("push_unchecked", <<value>>, Vec32_push_unchecked(vec32, value))

Vec32Reserve(additional) ==
    /\ ~panicked
    /\ Vec32Step("reserve", <<additional>>, Vec32_reserve(vec32, additional))

Vec32Clear ==
    /\ ~panicked
    /\ Vec32Step("clear", <<>>, Vec32_clear(vec32))

Vec32Get(index) ==
    /\ ~panicked
    /\ Vec32Step("get", <<index>>, Vec32_get(vec32, index))

Vec32GetMut(index) ==
    /\ ~panicked
    /\ Vec32Step("get_mut", <<index>>, Vec32_get_mut(vec32, index))

\* swap_remove_unchecked is called with an index below the length.
Vec32SwapRemoveUnchecked(index) ==
    /\ ~panicked
    /\ index < vec32.length
    /\ Vec32Step("swap_remove_unchecked", <<index>>,
                 Vec32_swap_remove_unchecked(vec32, index))

\* A Vec32 made by new or by with_capacity.
InitVec32 ==
    /\ archetypes = Archetypes_default.archetypes
    /\ archetype_component_count = Archetypes_default.count
    /\ archetype_ids = Archetypes_default.ids
    /\ locations = [e \in Entities |-> None]
    /\ issued = {}
    /\ panicked = FALSE
    /\ tables = <<>>
    /\ query_state = <<>>
    /\ iter = <<>>
    /\ yielded = <<>>
    /\ calls = <<>>
    /\ live = <<>>
    /\ read_only = FALSE
    /\ resources = <<>>
    /\ hierarchy = <<>>
    /\ global_transforms = <<>>
    /\ tasks = <<>>
    /\ touched = {}
    /\ \/ /\ vec32 = Vec32_new
          /\ last = [op |-> "new", arg |-> <<>>, ret |-> <<>>, before |-> Vec32_new]
       \/ \E capacity \in 0..MaxCapacity :
             /\ vec32 = Vec32_with_capacity(capacity)
             /\ last = [op |-> "with_capacity", arg |-> <<capacity>>, ret |-> <<>>,
                        before |-> Vec32_with_capacity(capacity)]

\* Every operation of the vector.
NextVec32 ==
    \/ \E value \in Values : Vec32Push(value)
    \/ \E value \in Values : Vec32PushUnchecked(value)
    \/ \E additional \in 0..MaxAdditional : Vec32Reserve(additional)
    \/ Vec32Clear
    \/ \E index \in 0..U32_MAX : Vec32Get(index)
    \/ \E index \in 0..U32_MAX : Vec32GetMut(index)
    \/ \E index \in 0..U32_MAX : Vec32SwapRemoveUnchecked(index)

SpecVec32 == InitVec32 /\ [][NextVec32]_vars

\* push, reserve and clear only, as far as a vector can grow.
NextVec32Growth ==
    \/ \E value \in Values : Vec32Push(value)
    \/ \E additional \in 0..MaxAdditional : Vec32Reserve(additional)
    \/ Vec32Clear

SpecVec32Growth == InitVec32 /\ [][NextVec32Growth]_vars

\* -------------------------------------------------- transform propagation
\* A Transform is a value; a GlobalTransform is the composition of the
\* transforms from a root down, kept as their sequence so that the order of
\* composition shows.
GlobalTransform_from(transform) == <<transform>>

\* GlobalTransform::mul_transform.
GlobalTransform_mul_transform(parent, transform) == Append(parent, transform)

\* The GlobalTransform of an entity before the system runs.
StaleGlobalTransform == <<0>>

\* The entities root_query matches: Children, Transform and GlobalTransform,
\* Without<Parent>.
RootQuery(h) ==
    {e \in DOMAIN h.parent :
        h.parent[e] = None /\ h.children[e] # None /\ h.transform[e] # None}

\* parent_query.get(entity): the Parent of the entity, if it has one.
ParentQuery_get(h, entity) == h.parent[entity]

\* transform_query.get_unchecked(entity): Transform and GlobalTransform,
\* With<Parent>.
TransformQuery_matches(h, entity) ==
    h.transform[entity] # None /\ h.parent[entity] # None

\* children_query.get(entity): Children, With<Parent>, With<GlobalTransform>.
ChildrenQuery_matches(h, entity) ==
    h.children[entity] # None /\ h.parent[entity] # None /\ h.transform[entity] # None

\* The frame on top of the call stack of a task.
Top(task) == task.stack[Len(task.stack)]

\* The call stack with its top frame replaced.
WithTop(stack, frame) == [stack EXCEPT ![Len(stack)] = frame]

\* The call stack after the top frame returned.
Popped(stack) == SubSeq(stack, 1, Len(stack) - 1)

\* A plausible bug: the closure of the root never ends, its frame stays when
\* the loop over its children is over.
Returning_root_stays(task) ==
    [task EXCEPT !.stack = IF Len(task.stack) = 1 THEN @ ELSE Popped(@)]

\* The task after its top frame returned; the closure of the root ends with
\* its last frame.
Returning(task) ==
    [task EXCEPT !.stack = Popped(@),
                 !.status = IF Len(task.stack) = 1 THEN "done" ELSE @]

\* A plausible bug: a change of Children is not handed down.
Children_changed_ignored(h, changed, entity) == changed

\* `changed |= children_changed`: below an entity whose Children changed
\* everything is recalculated.
Children_changed(h, changed, entity) == changed \/ h.children_changed[entity]

\* The closure of par_for_each_mut starts on root r: its GlobalTransform is
\* set when its Transform changed, and the loop over its children begins.
RootBegin(r) ==
    /\ tasks[r].status = "idle"
    /\ LET changed == hierarchy.transform_changed[r]
           written == IF changed
                      THEN [global_transforms EXCEPT ![r] =
                               GlobalTransform_from(hierarchy.transform[r][1])]
                      ELSE global_transforms
       IN  /\ global_transforms' = written
           /\ tasks' = [tasks EXCEPT ![r] =
                  [status |-> "running",
                   stack |-> <<[entity |-> r, parent |-> <<>>,
                                changed |-> Children_changed(hierarchy, changed, r),
                                global_matrix |-> written[r],
                                rest |-> hierarchy.children[r][1],
                                pc |-> "children"]>>]]
    /\ touched' = touched \cup {<<r, r>>}
    /\ UNCHANGED <<archetypes, archetype_component_count, archetype_ids,
                   locations, issued, last, panicked, qvars, rvars, hierarchy>>

\* A plausible bug: the parent of the child is not compared with the entity
\* that lists it.
ParentCheck_unchecked(h, expected_parent, entity) == TRUE

\* A plausible bug: any Parent will do.
ParentCheck_any_parent(h, expected_parent, entity) ==
    ParentQuery_get(h, entity) # None

\* The assertions at the head of propagate_recursive: the entity has a Parent
\* and it is the entity whose Children it was found in.
ParentCheck(h, expected_parent, entity) ==
    /\ ParentQuery_get(h, entity) # None
    /\ ParentQuery_get(h, entity)[1] = expected_parent

\* propagate_recursive is called on the next child of the top frame: it panics
\* on a wrong or missing Parent, returns Err when the child has no Transform,
\* and otherwise holds the child's GlobalTransform mutably.
Call(r) ==
    /\ tasks[r].status = "running"
    /\ Top(tasks[r]).pc = "children"
    /\ Top(tasks[r]).rest # <<>>
    /\ Len(tasks[r].stack) <= MaxHierarchyEntities + 1
    /\ LET top == Top(tasks[r])
           child == Head(top.rest)
           caller == [top EXCEPT !.rest = Tail(@)]
       IN  IF ~ParentCheck(hierarchy, top.entity, child)
           THEN /\ tasks' = [tasks EXCEPT ![r] =
                       [status |-> "panicked", stack |-> <<>>]]
                /\ panicked' = TRUE
                /\ UNCHANGED touched
           ELSE IF ~TransformQuery_matches(hierarchy, child)
           THEN /\ tasks' = [tasks EXCEPT ![r].stack = WithTop(@, caller)]
                /\ UNCHANGED <<panicked, touched>>
           ELSE /\ tasks' = [tasks EXCEPT ![r].stack =
                       Append(WithTop(@, caller),
                              [entity |-> child, parent |-> top.global_matrix,
                               changed |-> top.changed,
                               global_matrix |-> <<>>, rest |-> <<>>,
                               pc |-> "holding"])]
                /\ touched' = touched \cup {<<r, child>>}
                /\ UNCHANGED panicked
    /\ UNCHANGED <<archetypes, archetype_component_count, archetype_ids,
                   locations, issued, last, qvars, rvars, hierarchy,
                   global_transforms>>

\* A plausible bug: the children are handed the matrix the entity was handed.
Frame_global_matrix_of_parent(frame, written) == frame.parent

\* `*global_transform` at the end of the unsafe block: the copy of the
\* entity's GlobalTransform that its children are handed.
Frame_global_matrix(frame, written) == written[frame.entity]

\* The unsafe block and the children query of propagate_recursive: the
\* GlobalTransform held is written when something above or the Transform
\* changed, it is copied and released; without Children the call returns Err,
\* else the loop over the children begins.
Update(r) ==
    /\ tasks[r].status = "running"
    /\ Top(tasks[r]).pc = "holding"
    /\ LET top == Top(tasks[r])
           entity == top.entity
           changed == top.changed \/ hierarchy.transform_changed[entity]
           written == IF changed
                      THEN [global_transforms EXCEPT ![entity] =
                               GlobalTransform_mul_transform(top.parent,
                                   hierarchy.transform[entity][1])]
                      ELSE global_transforms
       IN  /\ global_transforms' = written
           /\ IF ~ChildrenQuery_matches(hierarchy, entity)
              THEN tasks' = [tasks EXCEPT ![r] = Returning(@)]
              ELSE tasks' = [tasks EXCEPT ![r].stack = WithTop(@,
                      [top EXCEPT
                          !.changed = Children_changed(hierarchy, changed, entity),
                          !.global_matrix = Frame_global_matrix(top, written),
                          !.rest = hierarchy.children[entity][1],
                          !.pc = "children"])]
    /\ UNCHANGED <<archetypes, archetype_component_count, archetype_ids,
                   locations, issued, last, panicked, qvars, rvars, hierarchy,
                   touched>>

\* The loop over the children of the top frame is over: the call returns.
Return(r) ==
    /\ tasks[r].status = "running"
    /\ Top(tasks[r]).pc = "children"
    /\ Top(tasks[r]).rest = <<>>
    /\ tasks' = [tasks EXCEPT ![r] = Returning(@)]
    /\ UNCHANGED <<archetypes, archetype_component_count, archetype_ids,
                   locations, issued, last, panicked, qvars, rvars, hierarchy,
                   global_transforms, touched>>

\* The tasks of the roots run in parallel, one step of one task at a time.
NextPropagate ==
    \E r \in DOMAIN tasks :
       \/ RootBegin(r)
       \/ Call(r)
       \/ Update(r)
       \/ Return(r)

\* The lists a Children component may hold.
ChildrenLists(E) == UNION {[1..n -> E] : n \in 0..MaxChildren}

\* The system is about to run on the hierarchy h.
InitHierarchy(h) ==
    /\ archetypes = Archetypes_default.archetypes
    /\ archetype_component_count = Archetypes_default.count
    /\ archetype_ids = Archetypes_default.ids
    /\ locations = [e \in Entities |-> None]
    /\ issued = {}
    /\ last = [op |-> "propagate_transforms", arg |-> <<>>, ret |-> <<>>]
    /\ panicked = FALSE
    /\ tables = <<>>
    /\ query_state = <<>>
    /\ iter = <<>>
    /\ yielded = <<>>
    /\ calls = <<>>
    /\ live = <<>>
    /\ read_only = FALSE
    /\ resources = <<>>
    /\ vec32 = <<>>
    /\ hierarchy = h
    /\ global_transforms = [e \in DOMAIN h.parent |-> StaleGlobalTransform]
    /\ tasks = [r \in RootQuery(h) |-> [status |-> "idle", stack |-> <<>>]]
    /\ touched = {}

\* Every hierarchy over the entities E with a root: any Parent, any Children
\* list, with or without Transform, every Transform flagged as changed.
AnyHierarchies(E) ==
    {h \in [parent : [E -> {None} \cup {Some(p) : p \in E}],
            children : [E -> {None} \cup {Some(l) : l \in ChildrenLists(E)}],
            transform : [E -> {None} \cup {Some(e) : e \in E}],
            transform_changed : {[e \in E |-> TRUE]},
            children_changed : {[e \in E |-> FALSE]}] :
        /\ \A e \in E : h.transform[e] \in {None, Some(e)}
        /\ RootQuery(h) # {}}

InitAnyHierarchy ==
    \E h \in AnyHierarchies(1..MaxHierarchyEntities) : InitHierarchy(h)

SpecAnyHierarchy == InitAnyHierarchy /\ [][NextPropagate]_vars

\* Any Parent and Children over entities that all have Transform and
\* GlobalTransform, so that no traversal is cut short by a missing one.
InitTransformHierarchy ==
    \E h \in AnyHierarchies(1..MaxHierarchyEntities) :
       /\ \A e \in DOMAIN h.transform : h.transform[e] # None
       /\ InitHierarchy(h)

\* The task pool runs every task that can take a step.
SpecTransformHierarchyFair ==
    InitTransformHierarchy /\ [][NextPropagate]_vars /\ WF_vars(NextPropagate)

\* The ancestors of an entity along Parent, at most `steps` of them.
RECURSIVE Ancestors(_, _, _)
Ancestors(parent, entity, steps) ==
    IF steps = 0 \/ parent[entity] = None THEN {}
    ELSE {parent[entity][1]} \cup Ancestors(parent, parent[entity][1], steps - 1)

\* The Parent components of a forest: no entity is its own ancestor.
ForestParents(E) ==
    {parent \in [E -> {None} \cup {Some(p) : p \in E}] :
        \A e \in E : e \notin Ancestors(parent, e, Cardinality(E))}

\* The Children components that agree with `parent`: each entity lists the
\* entities whose Parent it is, once each in any order, and an entity with no
\* child has an empty list or no Children.
RECURSIVE ForestChildren(_, _)
ForestChildren(parent, S) ==
    IF S = {} THEN {<<>>}
    ELSE LET e == CHOOSE x \in S : TRUE
             kids == {c \in DOMAIN parent : parent[c] = Some(e)}
             lists == {Some(l) : l \in Perms(kids)} \cup
                      (IF kids = {} THEN {None} ELSE {})
         IN  {(e :> l) @@ f : f \in ForestChildren(parent, S \ {e}), l \in lists}

\* The well-formed hierarchies over the entities E, each entity with or
\* without Transform and GlobalTransform, every Transform flagged as changed.
ForestHierarchies(E) ==
    UNION {{[parent |-> parent, children |-> children, transform |-> transform,
             transform_changed |-> [e \in E |-> TRUE],
             children_changed |-> [e \in E |-> FALSE]] :
              children \in ForestChildren(parent, E),
              transform \in {t \in [E -> {None} \cup {Some(e) : e \in E}] :
                                \A e \in E : t[e] \in {None, Some(e)}}} :
           parent \in ForestParents(E)}

InitForest ==
    \E h \in ForestHierarchies(1..MaxTreeEntities) :
       /\ RootQuery(h) # {}
       /\ InitHierarchy(h)

SpecForest == InitForest /\ [][NextPropagate]_vars

\* The well-formed hierarchies over the entities E with any change flags: a
\* Transform or a Children that is there may have changed since the system
\* last ran, or not.
FlaggedForestHierarchies(E) ==
    UNION {{[h EXCEPT !.transform_changed = transform_changed,
                      !.children_changed = children_changed] :
              transform_changed \in {f \in [E -> BOOLEAN] :
                                        \A e \in E : f[e] => h.transform[e] # None},
              children_changed \in {f \in [E -> BOOLEAN] :
                                       \A e \in E : f[e] => h.children[e] # None}} :
           h \in ForestHierarchies(E)}

InitFlaggedForest ==
    \E h \in FlaggedForestHierarchies(1..MaxHierarchyEntities) :
       /\ RootQuery(h) # {}
       /\ InitHierarchy(h)

SpecFlaggedForest == InitFlaggedForest /\ [][NextPropagate]_vars

\* ------------------------------------------------------------------ claims
IsSorted(list) == \A i \in 1..(Len(list) - 1) : list[i] < list[i + 1]

SameLists(r1, r2) ==
    /\ r1.table_components = r2.table_components
    /\ r1.sparse_set_components = r2.sparse_set_components

SameSets(r1, r2) ==
    /\ Range(r1.table_components) = Range(r2.table_components)
    /\ Range(r1.sparse_set_components) = Range(r2.sparse_set_components)

\* The last step was a get_id_or_insert call that found its archetype.
LastWasHit ==
    /\ last.op = "get_id_or_insert"
    /\ last.ret # None
    /\ \/ last.ret[1] < Len(archetypes) - 1
       \/ archetypes[last.ret[1] + 1].entities # <<>>
       \/ archetypes[last.ret[1] + 1].edges # Edges_default

\* C1 as stated: two get_id_or_insert calls return the same ArchetypeId if and
\* only if their component ids are equal as sets, whatever the order in which
\* the arguments list them.
C1_SameIdIffSameSet ==
    \A r1, r2 \in issued :
        (r1.id = r2.id) <=>
            (Range(r1.table_components) \cup Range(r1.sparse_set_components)
             = Range(r2.table_components) \cup Range(r2.sparse_set_components))

\* C1 amended: two get_id_or_insert calls return the same ArchetypeId if and
\* only if their table lists are equal and their sparse-set lists are equal,
\* element by element; for sorted, duplicate-free lists this is equality of
\* the table sets and of the sparse-set sets.
C1_SameIdIffSameLists ==
    \A r1, r2 \in issued :
        /\ (r1.id = r2.id) <=> SameLists(r1, r2)
        /\ (IsSorted(r1.table_components) /\ IsSorted(r1.sparse_set_components)
            /\ IsSorted(r2.table_components) /\ IsSorted(r2.sparse_set_components))
           => ((r1.id = r2.id) <=> SameSets(r1, r2))

\* Two calls listed the same components in different orders and got different
\* ids, and a repeated call got the id of an existing archetype.
C1_Witness ==
    /\ LastWasHit
    /\ \E r1, r2 \in issued :
        /\ SameSets(r1, r2)
        /\ ~SameLists(r1, r2)
        /\ r1.id # r2.id
    /\ \E r1, r2 \in issued :
        /\ ~SameSets(r1, r2)
        /\ IsSorted(r1.table_components) /\ IsSorted(r2.table_components)
        /\ Len(r1.table_components) = 2

\* The archetypes whose table and sparse-set component sets are those of the
\* given lists.
Matching(archs, table_components, sparse_set_components) ==
    {i \in 0..(Len(archs) - 1) :
        /\ Archetype_table_components(archs[i + 1]) = Range(table_components)
        /\ Archetype_sparse_set_components(archs[i + 1])
               = Range(sparse_set_components)}

\* C2: get_id_or_insert with sorted lists returns the id of the existing
\* archetype with the same (table list, sparse-set list) pair and leaves the
\* registry unchanged, whatever table_id is passed; otherwise it appends
\* exactly one archetype, whose id is the number of archetypes before the call.
C2_LookupOrAppend ==
    [][(last'.op = "get_id_or_insert" /\ ~panicked') =>
        LET m == Matching(archetypes, last'.arg[2], last'.arg[3])
        IN  IF m # {}
            THEN /\ \E i \in m : last'.ret = Some(i)
                 /\ archetypes' = archetypes
                 /\ archetype_component_count' = archetype_component_count
            ELSE /\ Len(archetypes') = Len(archetypes) + 1
                 /\ SubSeq(archetypes', 1, Len(archetypes)) = archetypes
                 /\ last'.ret = Some(Len(archetypes))
                 /\ archetypes'[Len(archetypes')].id = Len(archetypes)
                 /\ archetypes'[Len(archetypes')].table_id = last'.arg[1]
    ]_vars

\* A call found an archetype that holds an entity and a cached edge, and
\* passed a table_id other than the archetype's.
C2_Witness ==
    /\ last.op = "get_id_or_insert"
    /\ last.ret # None
    /\ LET archetype == archetypes[last.ret[1] + 1]
       IN  /\ archetype.table_id # last.arg[1]
           /\ archetype.entities # <<>>
           /\ archetype.edges # Edges_default
           /\ archetype.components # <<>>

\* What get_id_or_insert returned still resolves to the same archetype.
Resolves(archs, r) ==
    LET found == Archetypes_get(archs, r.id)
    IN  /\ found # None
        /\ found[1].id = r.id
        /\ found[1].table_id = r.table_id
        /\ Archetype_components(found[1]) = r.components

\* C3: over get_id_or_insert, allocate, swap_remove and clear_entities, every
\* ArchetypeId ever returned still resolves through Archetypes::get to an
\* archetype with that id, table_id and component set, no id is handed out for
\* two identities, and Archetypes::len never decreases.
C3_IdsStayValid ==
    /\ [](\A r \in issued : Resolves(archetypes, r))
    /\ [](\A r1, r2 \in issued : (r1.id = r2.id) => SameLists(r1, r2))
    /\ [][Archetypes_len(archetypes') >= Archetypes_len(archetypes)]_vars

\* Entities were cleared after three archetypes were created and used.
C3_Witness ==
    /\ last.op = "clear_entities"
    /\ Len(archetypes) = MaxArchetypes
    /\ Cardinality(issued) = MaxArchetypes
    /\ \A i \in DOMAIN archetypes : archetypes[i].entities = <<>>

\* C4: the archetype with id 0 always exists and has no components, and
\* get_id_or_insert with empty lists returns id 0 and creates nothing.
C4_EmptyArchetype ==
    /\ [](/\ Archetypes_get(archetypes, 0) # None
          /\ Archetypes_get(archetypes, 0)[1].id = 0
          /\ Archetype_components(Archetypes_get(archetypes, 0)[1]) = {})
    /\ [][(/\ last'.op = "get_id_or_insert"
           /\ last'.arg[2] = <<>>
           /\ last'.arg[3] = <<>>)
          => (/\ last'.ret = Some(0)
              /\ ~panicked'
              /\ archetypes' = archetypes)]_vars

\* get_id_or_insert was called with empty lists and another table_id after
\* other archetypes were created and the empty archetype received an entity.
C4_Witness ==
    /\ last.op = "get_id_or_insert"
    /\ last.arg[2] = <<>> /\ last.arg[3] = <<>>
    /\ last.arg[1] # archetypes[1].table_id
    /\ last.ret = Some(0)
    /\ Len(archetypes) > 1
    /\ archetypes[1].entities # <<>>


\* The number of components of the archetypes before position i.
RECURSIVE ComponentsBefore(_, _)
ComponentsBefore(archs, i) ==
    IF i <= 1 THEN 0
    ELSE ComponentsBefore(archs, i - 1)
         + Cardinality(DOMAIN archs[i - 1].components)

ArchetypeComponentIdOf(archetype, component_id) ==
    archetype.components[component_id].archetype_component_id

\* C5: every archetype's components carry consecutive ArchetypeComponentIds
\* taken from the global counter at its creation, table components before
\* sparse-set components; no id is shared by two (archetype, component)
\* pairs; archetype_components_len is the sum of the component counts.
C5_FreshConsecutiveIds ==
    /\ \A i \in DOMAIN archetypes :
        LET archetype == archetypes[i]
            start == ComponentsBefore(archetypes, i)
            table == SetToSortedSeq(Archetype_table_components(archetype))
            sparse == SetToSortedSeq(Archetype_sparse_set_components(archetype))
        IN  /\ \A k \in DOMAIN table :
                ArchetypeComponentIdOf(archetype, table[k]) = start + k - 1
            /\ \A k \in DOMAIN sparse :
                ArchetypeComponentIdOf(archetype, sparse[k])
                    = start + Len(table) + k - 1
    /\ \A i, j \in DOMAIN archetypes :
        \A c \in DOMAIN archetypes[i].components,
           d \in DOMAIN archetypes[j].components :
            (ArchetypeComponentIdOf(archetypes[i], c)
                = ArchetypeComponentIdOf(archetypes[j], d))
            => (i = j /\ c = d)
    /\ archetype_component_count
           = ComponentsBefore(archetypes, Len(archetypes) + 1)

\* C6: with the caller storing the location allocate returns and moving the
\* swapped entity's location after swap_remove, every located entity is at
\* archetype.entities[location.index], and every stored entity has exactly
\* that one location.
C6_LocationInvariant ==
    /\ \A e \in Entities :
        (locations[e] # None) =>
            LET location == locations[e][1]
            IN  /\ location.archetype_id < Len(archetypes)
                /\ location.index
                       < Len(archetypes[location.archetype_id + 1].entities)
                /\ archetypes[location.archetype_id + 1]
                       .entities[location.index + 1].entity = e
    /\ \A i \in DOMAIN archetypes :
        \A k \in DOMAIN archetypes[i].entities :
            locations[archetypes[i].entities[k].entity]
                = Some([archetype_id |-> i - 1, index |-> k - 1])

\* swap_remove moved the last of three entities into the first place while
\* another entity lives in another archetype.
C6_Witness ==
    /\ last.op = "swap_remove"
    /\ last.ret # None
    /\ last.ret.swapped_entity # None
    /\ last.arg[2] = 0
    /\ Len(archetypes[last.arg[1] + 1].entities) = 2
    /\ locations[last.ret.swapped_entity[1]]
           = Some([archetype_id |-> last.arg[1], index |-> 0])

\* C7: swap_remove(i) on an archetype of length n, i < n, returns the removed
\* entity's table_row and leaves length n - 1; for i = n - 1 it reports no
\* swapped entity and nothing else moves; otherwise it reports the former
\* last entity, which is now at index i, and nothing else moves.
C7_SwapRemove ==
    [][(last'.op = "swap_remove" /\ last'.ret # None) =>
        LET a == last'.arg[1]
            i == last'.arg[2]
            old == archetypes[a + 1].entities
            new == archetypes'[a + 1].entities
            n == Len(old)
        IN  /\ i < n
            /\ last'.ret.table_row = old[i + 1].table_row
            /\ Len(new) = n - 1
            /\ \A j \in 0..(n - 2) : (j # i) => (new[j + 1] = old[j + 1])
            /\ IF i = n - 1
               THEN last'.ret.swapped_entity = None
               ELSE /\ last'.ret.swapped_entity = Some(old[n].entity)
                    /\ new[i + 1] = old[n]
            /\ \A b \in DOMAIN archetypes :
                (b # a + 1) => (archetypes'[b] = archetypes[b])
            /\ [archetypes'[a + 1] EXCEPT !.entities = old] = archetypes[a + 1]
    ]_vars

\* swap_remove(0) on three entities with different table rows: the last one
\* was moved to index 0 and the middle one stayed.
C7_Witness ==
    /\ last.op = "swap_remove"
    /\ last.ret # None
    /\ last.arg[2] = 0
    /\ last.ret.swapped_entity # None
    /\ Len(archetypes[last.arg[1] + 1].entities) = 2
    /\ archetypes[last.arg[1] + 1].entities[1].table_row # last.ret.table_row

\* C8: the generation never decreases, grows exactly when get_id_or_insert
\* creates an archetype, always equals the number of archetypes, and the
\* archetypes created since generation g are those with index >= g.
C8_Generation ==
    /\ [](Archetypes_generation(archetypes) = Archetypes_len(archetypes))
    /\ [][LET g == Archetypes_generation(archetypes)
              h == Archetypes_generation(archetypes')
              creates == /\ last'.op = "get_id_or_insert"
                         /\ ~panicked'
                         /\ Matching(archetypes, last'.arg[2], last'.arg[3]) = {}
          IN  /\ h >= g
              /\ (h > g) <=> creates
              /\ creates => (h = g + 1)
              /\ \A i \in 0..(g - 1) :
                    /\ Archetypes_get(archetypes', i)[1].id
                           = Archetypes_get(archetypes, i)[1].id
                    /\ Archetypes_get(archetypes', i)[1].components
                           = Archetypes_get(archetypes, i)[1].components
              /\ \A i \in g..(h - 1) :
                    /\ Archetypes_get(archetypes', i)[1].id = i
                    /\ Archetypes_get(archetypes, i) = None
         ]_vars

\* A third archetype was just created while an entity lives in the second.
C8_Witness ==
    /\ last.op = "get_id_or_insert"
    /\ last.ret = Some(2)
    /\ Archetypes_generation(archetypes) = 3
    /\ archetypes[3].entities = <<>>
    /\ archetypes[2].entities # <<>>

\* The three cache lookups of archetype i for a bundle.
EdgeLookups(archs, i, bundle_id) ==
    <<Edges_get_add_bundle(archs[i].edges, bundle_id),
      Edges_get_remove_bundle(archs[i].edges, bundle_id),
      Edges_get_remove_bundle_intersection(archs[i].edges, bundle_id)>>

\* Position in EdgeLookups of the map an insert operation writes, and the
\* value a lookup returns after it.
InsertedMap(op) ==
    CASE op = "insert_add_bundle" -> 1
      [] op = "insert_remove_bundle" -> 2
      [] op = "insert_remove_bundle_intersection" -> 3
      [] OTHER -> 0

InsertedValue(l) ==
    IF l.op = "insert_add_bundle"
    THEN [archetype_id |-> l.arg[3], bundle_status |-> l.arg[4]]
    ELSE l.arg[3]

\* C9: every edge lookup returns None until the matching insert was made for
\* that bundle on that archetype, afterwards the last inserted value (Some(None)
\* for a cached "no destination"), and an insert changes the result of no
\* other lookup.
C9_EdgeCache ==
    /\ []((last.op = "default") =>
            \A i \in DOMAIN archetypes, b \in BundleIds :
                EdgeLookups(archetypes, i, b) = <<None, None, None>>)
    /\ [][\A i \in DOMAIN archetypes', b \in BundleIds, m \in 1..3 :
            IF /\ InsertedMap(last'.op) = m
               /\ last'.arg[1] = i - 1
               /\ last'.arg[2] = b
            THEN EdgeLookups(archetypes', i, b)[m] = Some(InsertedValue(last'))
            ELSE IF i \in DOMAIN archetypes
            THEN EdgeLookups(archetypes', i, b)[m] = EdgeLookups(archetypes, i, b)[m]
            ELSE EdgeLookups(archetypes', i, b)[m] = None
         ]_vars

\* A "no destination" removal was cached for a bundle whose intersection
\* removal on the same archetype is cached with a destination.
C9_Witness ==
    /\ last.op = "insert_remove_bundle"
    /\ last.arg[3] = None
    /\ LET edges == archetypes[last.arg[1] + 1].edges
       IN  /\ Edges_get_remove_bundle(edges, last.arg[2]) = Some(None)
           /\ Edges_get_remove_bundle_intersection(edges, last.arg[2]) # None
           /\ Edges_get_remove_bundle_intersection(edges, last.arg[2]) # Some(None)
           /\ Edges_get_add_bundle(edges, last.arg[2]) = None

\* C10: get_id_or_insert panics rather than hand out an ArchetypeComponentId
\* that is the reserved sentinel or lies beyond it, so no archetype component
\* carries such an id and the counter never passes the sentinel.
C10_OverflowPanics ==
    /\ archetype_component_count <= U32_MAX
    /\ \A i \in DOMAIN archetypes :
        \A c \in DOMAIN archetypes[i].components :
            ArchetypeComponentIdOf(archetypes[i], c) < U32_MAX

\* The id constructors on every index up to twice the id space: a panic
\* exactly from U32_MAX on, and below it an id that gives the index back and
\* is not the sentinel.
NewPanicsOrRoundTrips ==
    \A i \in 0..(2 * U32_MAX + 1) :
        /\ (ArchetypeId_new(i) = None) <=> (i >= U32_MAX)
        /\ (ArchetypeComponentId_new(i) = None) <=> (i >= U32_MAX)
        /\ (i < U32_MAX) =>
            /\ ArchetypeId_index(ArchetypeId_new(i)[1]) = i
            /\ ArchetypeId_new(i)[1] # U32_MAX
            /\ ArchetypeComponentId_index(ArchetypeComponentId_new(i)[1]) = i
            /\ ArchetypeComponentId_new(i)[1] # U32_MAX

\* No ArchetypeId and no ArchetypeComponentId held by the registry is the
\* sentinel.
NoSentinelId ==
    /\ \A i \in DOMAIN archetypes :
        /\ archetypes[i].id # U32_MAX
        /\ \A c \in DOMAIN archetypes[i].components :
            ArchetypeComponentIdOf(archetypes[i], c) # U32_MAX
    /\ \A k \in DOMAIN archetype_ids : archetype_ids[k] # U32_MAX

\* get_id_or_insert panics exactly when it has to create an archetype and
\* the archetype count has reached U32_MAX, and the panicking call leaves the
\* archetype list and the identity map as they were.
FullRegistryPanics ==
    (last'.op = "get_id_or_insert") =>
        LET creates == Matching(archetypes, last'.arg[2], last'.arg[3]) = {}
        IN  /\ panicked' <=> (creates /\ Len(archetypes) >= U32_MAX)
            /\ panicked' => /\ archetypes' = archetypes
                            /\ archetype_ids' = archetype_ids
                            /\ last'.ret = None

\* C11: ArchetypeId::new and ArchetypeComponentId::new panic exactly for an
\* index >= u32::MAX and otherwise give the index back, so no id ever holds
\* the sentinel u32::MAX; get_id_or_insert panics, leaving the archetype list
\* and the identity map unchanged, once the archetype count is u32::MAX.
C11_NoSentinelIds ==
    /\ [](NewPanicsOrRoundTrips /\ NoSentinelId)
    /\ [][FullRegistryPanics]_vars

\* The part of C11 that is about the two constructors and the archetype ids.
NewContractsHold ==
    /\ [](NewPanicsOrRoundTrips
          /\ \A i \in DOMAIN archetypes : archetypes[i].id = i - 1
          /\ \A k \in DOMAIN archetype_ids : archetype_ids[k] < U32_MAX)
    /\ [][FullRegistryPanics]_vars

\* get_id_or_insert has panicked on a registry of U32_MAX archetypes.
FullRegistryPanicked ==
    /\ panicked
    /\ last.op = "get_id_or_insert"
    /\ Len(archetypes) = U32_MAX

\* The items of a history of returned values, without the None entries.
Items(history) ==
    LET some == SelectSeq(history, LAMBDA x : x # None)
    IN  [k \in 1..Len(some) |-> some[k][1]]

Exhausted(i) == NoneCount(yielded[i]) > 0

IsPrefix(s, t) == Len(s) <= Len(t) /\ \A k \in 1..Len(s) : s[k] = t[k]

\* C12: once QueryIterationCursor::next (QueryIter::next) has returned None,
\* every later call returns None and leaves the cursor as it is: no table or
\* archetype is bound and no row is looked at, in the dense and in the sparse
\* strategy.
C12_ExhaustionIsTerminal ==
    [][Exhausted(1) =>
          /\ last'.ret = None
          /\ iter'[1].cursor = iter[1].cursor
          /\ calls' = <<>>
          /\ ~panicked'
      ]_vars

\* A sparse cursor returned items of two archetypes and then None as often
\* as it was asked.
C12_Witness ==
    /\ ~query_state.IS_DENSE
    /\ NoneCount(yielded[1]) = MaxNoneReturns
    /\ \E j, k \in DOMAIN Items(yielded[1]) :
          Items(yielded[1])[j].bound # Items(yielded[1])[k].bound

\* A filter_fetch or fetch call was made on a callee bound to the span that
\* holds the row, at a position inside the span.
CallInBoundSpan(c) ==
    /\ c.bound # None
    /\ c.current_index >= 0
    /\ c.current_index < c.current_len
    /\ LET b == c.bound[1]
       IN  IF "archetype_id" \in DOMAIN b
           THEN LET archetype == archetypes[b.archetype_id + 1]
                IN  /\ b.table_id = Archetype_table_id(archetype)
                    /\ c.current_len = Archetype_len(archetype)
                    /\ archetype.entities[c.current_index + 1]
                           = [entity |-> c.entity, table_row |-> c.table_row]
                    /\ c.table_row < Table_entity_count(tables[b.table_id + 1])
                    /\ tables[b.table_id + 1].entities[c.table_row + 1] = c.entity
           ELSE /\ c.current_len = Table_entity_count(tables[b.table_id + 1])
                /\ c.table_row = c.current_index
                /\ tables[b.table_id + 1].entities[c.table_row + 1] = c.entity

\* C13: every filter_fetch and fetch call of QueryIterationCursor::next and
\* of QueryManyIter::fetch_next_aliased_unchecked is made on a filter or
\* fetch whose latest binding is the table or archetype that holds the row,
\* with 0 <= current_index < current_len and current_len the row count of
\* that span; current_index never exceeds current_len.
C13_FetchAfterBinding ==
    /\ \A k \in DOMAIN calls : CallInBoundSpan(calls[k])
    /\ \A i \in DOMAIN iter :
          (iter[i].kind = "QueryIter") =>
              /\ iter[i].cursor.current_index <= iter[i].cursor.current_len
              /\ iter[i].cursor.current_len = Len(iter[i].cursor.entities)

\* One call of a sparse cursor rejected a row, went on to another archetype
\* and fetched a row whose table row is not its index in the archetype.
C13_Witness ==
    /\ iter[1].kind = "QueryIter"
    /\ Len(calls) >= 3
    /\ calls[1].bound # calls[Len(calls)].bound
    /\ calls[Len(calls)].call = "fetch"
    /\ calls[Len(calls)].table_row # calls[Len(calls)].current_index

\* The rows of a span as items: of table `id` in the dense strategy, of
\* archetype `id` in the sparse strategy.
SpanRows(is_dense, id) ==
    IF is_dense
    THEN [r \in 1..Len(tables[id + 1].entities) |->
             [entity |-> tables[id + 1].entities[r], table_row |-> r - 1,
              bound |-> Some([table_id |-> id])]]
    ELSE [k \in 1..Len(archetypes[id + 1].entities) |->
             [entity |-> archetypes[id + 1].entities[k].entity,
              table_row |-> archetypes[id + 1].entities[k].table_row,
              bound |-> Some([archetype_id |-> id,
                              table_id |-> archetypes[id + 1].table_id])]]

\* The rows the filter accepts, span by span in the order of `ids`, each
\* span in increasing index order.
RECURSIVE AcceptedRows(_, _)
AcceptedRows(is_dense, ids) ==
    IF ids = <<>> THEN <<>>
    ELSE SelectSeq(SpanRows(is_dense, Head(ids)),
                   LAMBDA row : row.entity \in query_state.pass)
         \o AcceptedRows(is_dense, Tail(ids))

MatchedIds(is_dense) ==
    IF is_dense THEN query_state.matched_table_ids
    ELSE query_state.matched_archetype_ids

\* C14: QueryIter returns the accepted rows of the matched tables (dense) or
\* archetypes (sparse) in the order of the matched-id list and, inside a
\* span, in increasing index order: what it has returned is always a prefix
\* of that list, it never returns a rejected row, and when it returns None it
\* has returned every accepted row exactly once.
C14_EveryRowOnceInOrder ==
    LET got == Items(yielded[1])
        all == AcceptedRows(query_state.IS_DENSE, MatchedIds(query_state.IS_DENSE))
    IN  /\ IsPrefix(got, all)
        /\ \A k \in DOMAIN got : got[k].entity \in query_state.pass
        /\ \A k \in DOMAIN yielded[1] :
              (yielded[1][k] = None) => (k > Len(all))
        /\ Exhausted(1) => (got = all)

\* A dense iterator has returned rows of two tables and has skipped a
\* rejected row of a matched table.
C14_Witness ==
    /\ query_state.IS_DENSE
    /\ Exhausted(1)
    /\ Len(query_state.matched_table_ids) = 2
    /\ \E j, k \in DOMAIN Items(yielded[1]) :
          Items(yielded[1])[j].bound # Items(yielded[1])[k].bound
    /\ \E t \in Range(query_state.matched_table_ids) :
          Range(tables[t + 1].entities) \ query_state.pass # {}

\* How often a history holds an item of the entity.
EntityCount(history, entity) ==
    Cardinality({k \in DOMAIN Items(history) : Items(history)[k].entity = entity})

\* C15: on the same world and query, with the same filter outcome for each
\* entity and matched_table_ids the tables of the matched archetypes, the
\* dense walk (iterator 1) and the sparse walk (iterator 2) return the same
\* multiset of entities.
C15_DenseEqualsSparse ==
    (Exhausted(1) /\ Exhausted(2)) =>
        \A e \in DOMAIN locations :
            EntityCount(yielded[1], e) = EntityCount(yielded[2], e)

\* Both walks are over, three entities were returned by each, in different
\* orders, and one table holds two matched archetypes.
C15_Witness ==
    /\ Len(iter) = 2
    /\ Exhausted(1) /\ Exhausted(2)
    /\ Len(Items(yielded[1])) = 3
    /\ \E k \in 1..3 : Items(yielded[1])[k].entity # Items(yielded[2])[k].entity
    /\ Len(query_state.matched_archetype_ids) > Len(query_state.matched_table_ids)

\* The entities of the matched archetypes, and their number.
MatchedEntities ==
    UNION {{archetypes[a + 1].entities[k].entity :
                k \in DOMAIN archetypes[a + 1].entities} :
           a \in query_state.matched_archetypes}

\* The binomial coefficient, by Pascal's rule.
RECURSIVE Binomial(_, _)
Binomial(n, k) ==
    IF k = 0 THEN 1
    ELSE IF k > n THEN 0
    ELSE Binomial(n - 1, k - 1) + Binomial(n - 1, k)

CombinationEntities(combination) ==
    {combination[i].entity : i \in DOMAIN combination}

\* The combinations returned are those of K of the matched entities, each
\* once: as many as C(N, K).
EveryCombinationOnce ==
    LET got == Items(yielded[1])
        K == iter[1].K
        subsets == {S \in SUBSET MatchedEntities : Cardinality(S) = K}
    IN  /\ Len(got) = Binomial(Cardinality(MatchedEntities), K)
        /\ \A k \in DOMAIN got :
              Len(got[k]) = K /\ Cardinality(CombinationEntities(got[k])) = K
        /\ \A S \in subsets :
              Cardinality({k \in DOMAIN got : CombinationEntities(got[k]) = S}) = 1
        /\ \A k \in DOMAIN yielded[1] :
              (yielded[1][k] = None) => (k > Len(got))

CursorOrder ==
    AcceptedRows(query_state.IS_DENSE, MatchedIds(query_state.IS_DENSE))

Place(item) ==
    IF \E k \in DOMAIN CursorOrder : CursorOrder[k] = item
    THEN CHOOSE k \in DOMAIN CursorOrder : CursorOrder[k] = item
    ELSE 0

Places(combination) == [i \in DOMAIN combination |-> Place(combination[i])]

LexLess(p, q) ==
    \E i \in DOMAIN p :
        /\ p[i] < q[i]
        /\ \A j \in 1..(i - 1) : p[j] = q[j]

\* C17: in the order in which a single cursor returns the rows, the K items
\* of every combination returned are strictly increasing, so no entity is
\* repeated, and every combination is lexicographically greater than the one
\* returned before it.
C17_LexicographicOrder ==
    (iter[1].kind = "QueryCombinationIter") =>
        LET got == Items(yielded[1])
        IN  /\ \A k \in DOMAIN got :
                  /\ \A i \in DOMAIN got[k] : Place(got[k][i]) >= 1
                  /\ \A i, j \in DOMAIN got[k] :
                        (i < j) => (Place(got[k][i]) < Place(got[k][j]))
            /\ \A k \in 1..(Len(got) - 1) :
                  LexLess(Places(got[k]), Places(got[k + 1]))

\* With three sparse cursors over four rows in several archetypes: after
\* (1, 3, 4) the middle cursor advanced and the last one was exhausted on its
\* first pull; the next combination returned is (2, 3, 4).
C17_Witness ==
    /\ iter[1].kind = "QueryCombinationIter"
    /\ iter[1].K = 3
    /\ \E k \in 1..(Len(Items(yielded[1])) - 1) :
          /\ Places(Items(yielded[1])[k]) = <<1, 3, 4>>
          /\ Places(Items(yielded[1])[k + 1]) = <<2, 3, 4>>
    /\ ~query_state.IS_DENSE
    /\ Len(query_state.matched_archetype_ids) >= 2

\* C18 as stated: with N the total length of the matched archetypes,
\* size_hint returns (C(N, K), Some(C(N, K))) for an archetypal query and
\* (0, Some(C(N, K))) otherwise, for every N and K.
C18_SizeHintIsBinomial ==
    (last.op = "size_hint") =>
        LET N == SumLen(archetypes, query_state.matched_archetype_ids)
            C == Binomial(N, iter[1].K)
        IN  last.ret = IF query_state.IS_ARCHETYPAL THEN <<C, Some(C)>>
                       ELSE <<0, Some(C)>>

\* The same for K >= 1 only, where the one K == 0 branch of size_hint plays
\* no part.
SizeHintIsBinomialPositiveK ==
    (last.op = "size_hint" /\ iter[1].K >= 1) =>
        LET N == SumLen(archetypes, query_state.matched_archetype_ids)
            C == Binomial(N, iter[1].K)
        IN  last.ret = IF query_state.IS_ARCHETYPAL THEN <<C, Some(C)>>
                       ELSE <<0, Some(C)>>

\* size_hint returned a lower bound above the number of combinations of the
\* rows the filter accepts, which is all the iterator can return.
SizeHintAboveCount ==
    /\ last.op = "size_hint"
    /\ iter[1].K >= 1
    /\ last.ret[1] > Binomial(Cardinality(MatchedEntities \cap query_state.pass),
                              iter[1].K)

\* size_hint where C(N, K) fits in usize but was not computed.
SizeHintOverflowed ==
    /\ last.op = "size_hint"
    /\ last.ret[2] = None
    /\ Binomial(SumLen(archetypes, query_state.matched_archetype_ids), iter[1].K)
           <= USIZE_MAX

\* C19: once QueryCombinationIter::fetch_next (next) has returned None, every
\* later call returns None, for every K >= 0, every number of matched
\* entities and every filter outcome.
C19_CombinationsFused ==
    [][(iter[1].kind = "QueryCombinationIter" /\ Exhausted(1)
           /\ yielded' # yielded)
       => (last'.ret = None /\ ~panicked')]_vars

\* With three cursors, a call after the first None moved the first cursor on
\* and still returned None.
C19_Witness ==
    /\ iter[1].kind = "QueryCombinationIter"
    /\ iter[1].K = 3
    /\ NoneCount(yielded[1]) = MaxNoneReturns
    /\ Len(Items(yielded[1])) >= 4
    /\ iter[1].cursors[1].current_index = iter[1].cursors[1].current_len
    /\ iter[1].cursors[1].id_iter = <<>>

\* Two items refer to the same row of the same table.
SameRow(a, b) ==
    /\ a.bound[1].table_id = b.bound[1].table_id
    /\ a.table_row = b.table_row

\* No two of the items the caller holds refer to the same row.
NoAliasedRow ==
    \A j, k \in DOMAIN live : j # k => ~SameRow(live[j], live[k])

\* The items the caller holds are those of the value returned last.
OneLiveValue == live = Returned_items(iter[1], last.ret)

\* C20: for a query with mutable access the items a caller of
\* QueryManyIter::fetch_next or QueryCombinationIter::fetch_next holds are
\* those of the value returned last, the earlier ones having ended, and no two
\* of them refer to the same row; Iterator::next, whose items keep the wider
\* lifetime, is only ever called on a read-only query.
C20_OneLiveItem ==
    /\ ~read_only /\ last.op # "new" => OneLiveValue /\ NoAliasedRow
    /\ last.op = "next" => read_only

\* With mutable access fetch_next returned the same row twice in a row and
\* the caller holds one item for it.
C20_Witness ==
    /\ ~read_only
    /\ last.op = "fetch_next"
    /\ Len(yielded[1]) >= 2
    /\ yielded[1][Len(yielded[1])] # None
    /\ yielded[1][Len(yielded[1]) - 1] # None
    /\ iter[1].kind = "QueryManyIter"
    /\ SameRow(yielded[1][Len(yielded[1])][1], yielded[1][Len(yielded[1]) - 1][1])
    /\ Len(live) = 1

\* With mutable access a second combination of two items is held.
MutableCombinationHeld ==
    /\ ~read_only
    /\ iter[1].kind = "QueryCombinationIter"
    /\ Len(live) = 2
    /\ Len(Items(yielded[1])) >= 2

\* A read-only query whose caller holds two items of the same row.
ReadOnlyAliased ==
    /\ read_only
    /\ ~NoAliasedRow

\* The entity is alive, its archetype is matched and the filter accepts its
\* row.
Acceptable(entity) ==
    /\ locations[entity] # None
    /\ locations[entity][1].archetype_id \in query_state.matched_archetypes
    /\ entity \in query_state.pass

\* The places of the list whose entity fetch_next may return.
AcceptablePlaces(list) == {j \in DOMAIN list : Acceptable(list[j])}

\* C21: each QueryManyIter::fetch_next returns the item of the first entity of
\* the remaining list that is alive, matched and accepted by the filter, and
\* leaves the list after that entity, so items come in list order, once per
\* occurrence; the others are skipped, and None is returned only when no such
\* entity remains, with the list then exhausted.
C21_ListOrder ==
    [][(last'.op = "fetch_next" /\ iter[1].kind = "QueryManyIter") =>
         LET list == iter[1].entity_iter
             hits == AcceptablePlaces(list)
         IN  IF hits = {}
             THEN /\ last'.ret = None
                  /\ iter'[1].entity_iter = <<>>
             ELSE LET j == CHOOSE h \in hits : \A g \in hits : h <= g
                  IN  /\ last'.ret # None
                      /\ last'.ret[1].entity = list[j]
                      /\ iter'[1].entity_iter = SubSeq(list, j + 1, Len(list))]_vars

\* fetch_next returned an entity a second time, after skipping an entity whose
\* row the filter rejects.
C21_Witness ==
    /\ iter[1].kind = "QueryManyIter"
    /\ Len(Items(yielded[1])) = 2
    /\ Items(yielded[1])[1].entity = Items(yielded[1])[2].entity
    /\ last.ret # None
    /\ Len(calls) = 3

\* The step is the operation op of the resource store.
ResourceStep(op) == last'.op = op

\* The slots other than that of component_id are left as they are.
OtherSlotsKept(component_id) ==
    /\ DOMAIN resources' = DOMAIN resources \cup {component_id}
    /\ \A c \in DOMAIN resources \ {component_id} : resources'[c] = resources[c]

\* C22: Resources::initialize_with creates the slot of a component id only on
\* the first call for it, not present and with the id the closure returned, a
\* new one; a later call returns the slot as it is and leaves the id counter
\* alone; Resources::len grows, by one, only on a creating call.
C22_InitializeOnce ==
    /\ [][(ResourceStep("initialize_with") /\ ~panicked') =>
            LET c == last'.arg[1]
            IN  IF c \in DOMAIN resources
                THEN /\ resources' = resources
                     /\ archetype_component_count' = archetype_component_count
                     /\ last'.ret = Some(resources[c])
                ELSE /\ OtherSlotsKept(c)
                     /\ ~ResourceData_is_present(resources'[c])
                     /\ ResourceData_id(resources'[c]) = archetype_component_count
                     /\ \A d \in DOMAIN resources :
                           ResourceData_id(resources[d]) # ResourceData_id(resources'[c])
                     /\ archetype_component_count' = archetype_component_count + 1
                     /\ last'.ret = Some(resources'[c])
                     /\ Resources_len(resources') = Resources_len(resources) + 1]_vars
    /\ [][Resources_len(resources') # Resources_len(resources) =>
            /\ ResourceStep("initialize_with")
            /\ last'.arg[1] \notin DOMAIN resources
            /\ Resources_len(resources') = Resources_len(resources) + 1]_vars

\* initialize_with returned the slot of an id that was created earlier and
\* filled since, next to another slot.
C22_Witness ==
    /\ last.op = "initialize_with"
    /\ last.ret # None
    /\ ResourceData_is_present(last.ret[1])
    /\ last.ret[1].changed_tick = U32_MAX
    /\ Resources_len(resources) = 2

\* initialize_with for a component id that is not registered panicked.
InitializeUnregisteredPanicked ==
    /\ last.op = "initialize_with"
    /\ panicked
    /\ last.arg[1] \notin ResourceIds

\* C23: after ResourceData::insert(value, change_tick), on an empty or on a
\* populated slot, the slot is present, holds the value, its added and its
\* changed tick are change_tick, and its ArchetypeComponentId is the same.
C23_InsertStamps ==
    [][ResourceStep("insert") =>
         LET c == last'.arg[1]
             slot == resources'[c]
         IN  /\ ResourceData_is_present(slot)
             /\ ResourceData_get_data(slot) = Some(last'.arg[2])
             /\ ResourceData_get_ticks(slot) =
                    Some([added |-> last'.arg[3], changed |-> last'.arg[3]])
             /\ ResourceData_id(slot) = ResourceData_id(resources[c])
             /\ OtherSlotsKept(c)]_vars

\* insert replaced another value of a slot whose ticks differed.
C23_Witness ==
    /\ last.op = "insert"
    /\ last.replaced
    /\ last.arg[3] = U32_MAX
    /\ resources[last.arg[1]].added_tick = U32_MAX

\* insert filled a slot that held no value.
InsertedIntoEmpty ==
    /\ last.op = "insert"
    /\ ~last.replaced

\* The ticks of a slot.
SlotTicks(slot) == [added |-> slot.added_tick, changed |-> slot.changed_tick]

\* C24: remove returns the value with the ticks of the slot, and
\* insert_with_ticks of that value and those ticks makes the slot present
\* again with the value and the added and changed ticks it had before the
\* remove.
C24_RoundTrip ==
    /\ [][(ResourceStep("remove") /\ last'.ret # None) =>
            LET c == last'.arg[1]
            IN  last'.ret = Some(<<resources[c].data[1], SlotTicks(resources[c])>>)]_vars
    /\ [][(ResourceStep("insert_with_ticks") /\ last'.reinserted) =>
            LET c == last'.arg[1]
                slot == resources'[c]
            IN  /\ ResourceData_is_present(slot)
                /\ ResourceData_get_data(slot) = Some(last.ret[1][1])
                /\ ResourceData_get_ticks(slot) = Some(last.ret[1][2])
                /\ ResourceData_id(slot) = ResourceData_id(resources[c])
                /\ slot = [resources[c] EXCEPT !.data = Some(last.ret[1][1])]]_vars

\* A value whose added tick is after its changed tick in the tick space was
\* removed and put back.
C24_Witness ==
    /\ last.op = "insert_with_ticks"
    /\ last.reinserted
    /\ resources[last.arg[1]].added_tick = U32_MAX
    /\ resources[last.arg[1]].changed_tick = 1

\* The getters of a slot return a value exactly when the slot is present.
GettersAgree ==
    \A c \in DOMAIN resources :
       /\ (ResourceData_get_data(resources[c]) # None) =
              ResourceData_is_present(resources[c])
       /\ (ResourceData_get_ticks(resources[c]) # None) =
              ResourceData_is_present(resources[c])
       /\ (ResourceData_get_with_ticks(resources[c]) # None) =
              ResourceData_is_present(resources[c])

\* C25: remove on a slot that is not present returns None and changes nothing;
\* on a present slot it returns the value with its ticks and leaves the slot
\* not present; the getters return a value exactly when is_present is true;
\* remove and remove_and_drop keep the slot itself, its id and Resources::len.
C25_RemoveKeepsSlot ==
    /\ []GettersAgree
    /\ [][ResourceStep("remove") =>
            LET c == last'.arg[1]
            IN  IF ResourceData_is_present(resources[c])
                THEN /\ last'.ret = Some(<<resources[c].data[1],
                                           SlotTicks(resources[c])>>)
                     /\ ~ResourceData_is_present(resources'[c])
                     /\ ResourceData_id(resources'[c]) = ResourceData_id(resources[c])
                     /\ OtherSlotsKept(c)
                     /\ Resources_len(resources') = Resources_len(resources)
                ELSE /\ last'.ret = None
                     /\ resources' = resources]_vars
    /\ [][ResourceStep("remove_and_drop") =>
            LET c == last'.arg[1]
            IN  /\ ~ResourceData_is_present(resources'[c])
                /\ ResourceData_id(resources'[c]) = ResourceData_id(resources[c])
                /\ OtherSlotsKept(c)
                /\ Resources_len(resources') = Resources_len(resources)]_vars

\* remove took the value out of one of two populated slots.
C25_Witness ==
    /\ last.op = "remove"
    /\ last.ret # None
    /\ last.ret[1][2].added # last.ret[1][2].changed
    /\ Resources_len(resources) = 2
    /\ ~ResourceData_is_present(resources[last.arg[1]])
    /\ \E c \in DOMAIN resources : ResourceData_is_present(resources[c])

\* remove on a slot that held a value once and holds none returned None.
RemovedFromEmpty ==
    /\ last.op = "remove"
    /\ last.ret = None
    /\ resources[last.arg[1]].changed_tick # 0

\* The age of a tick relative to the world tick, in wrapping arithmetic.
Age(tick, change_tick) == U32_wrapping_sub(change_tick, tick)

\* The world ticks from change_tick until the next sweep is due, the world
\* tick wrapping at the end of the tick space.
UntilNextSweep(change_tick) ==
    {(change_tick + d) % (U32_MAX + 1) : d \in 0..(2 * CHECK_TICK_THRESHOLD - 1)}

\* The sweep at change_tick took the tick `before` to `after`: a tick within
\* the horizon is kept, an older one is set to the horizon and is then not
\* reported as changed to a system that ran last at any tick, now and until
\* the next sweep is due.
Swept(before, after, change_tick) ==
    /\ Age(after, change_tick) <= MAX_CHANGE_AGE
    /\ Age(before, change_tick) <= MAX_CHANGE_AGE => after = before
    /\ Age(before, change_tick) > MAX_CHANGE_AGE =>
          \A now \in UntilNextSweep(change_tick), last_change_tick \in Ticks :
             ~Tick_is_older_than(after, last_change_tick, now)

\* C26: after Resources::check_change_ticks(current_tick) no slot's added or
\* changed tick is older than MAX_CHANGE_AGE relative to current_tick, a tick
\* that was older is not reported as changed whatever the last-run tick, also
\* when the stored tick is numerically above the wrapped world tick; every
\* slot is swept and its value, presence and id are kept.
C26_SweepClamps ==
    [][ResourceStep("check_change_ticks") =>
         /\ DOMAIN resources' = DOMAIN resources
         /\ \A c \in DOMAIN resources :
               /\ Swept(resources[c].added_tick, resources'[c].added_tick,
                        last'.arg[1])
               /\ Swept(resources[c].changed_tick, resources'[c].changed_tick,
                        last'.arg[1])
               /\ resources'[c].data = resources[c].data
               /\ resources'[c].id = resources[c].id]_vars

\* The sweep ran after the world tick wrapped and left the changed ticks of
\* two slots, one of them filled, at the horizon, numerically above the world
\* tick.
C26_Witness ==
    /\ last.op = "check_change_ticks"
    /\ Resources_len(resources) = 2
    /\ \A c \in DOMAIN resources :
          /\ Age(resources[c].changed_tick, last.arg[1]) = MAX_CHANGE_AGE
          /\ resources[c].changed_tick > last.arg[1]
    /\ \E c \in DOMAIN resources : ResourceData_is_present(resources[c])
    /\ \E c \in DOMAIN resources : ~ResourceData_is_present(resources[c])

\* A tick older than the horizon that, left unswept, comes to be reported as
\* changed before the next sweep is due, its age having wrapped.
UnsweptTickWraps ==
    \E c \in DOMAIN resources, change_tick, last_change_tick \in Ticks :
       /\ Age(resources[c].changed_tick, change_tick) > MAX_CHANGE_AGE
       /\ \E now \in UntilNextSweep(change_tick) :
             Tick_is_older_than(resources[c].changed_tick, last_change_tick, now)

\* Every task has run to its end.
PropagationDone ==
    \A r \in DOMAIN tasks : tasks[r].status \in {"done", "panicked"}

\* The entities that can be reached from the roots of root_query through
\* Children.
RECURSIVE ReachableFrom(_, _)
ReachableFrom(S, steps) ==
    IF steps = 0 THEN S
    ELSE ReachableFrom(S \cup {c \in DOMAIN hierarchy.parent :
                                  \E e \in S : /\ hierarchy.children[e] # None
                                               /\ c \in Range(hierarchy.children[e][1])},
                       steps - 1)

Reachable == ReachableFrom(DOMAIN tasks, Cardinality(DOMAIN hierarchy.parent))

\* The GlobalTransform of the entity is that of its parent composed with its
\* Transform, or its Transform if it is a root.
Composed(e) ==
    IF hierarchy.parent[e] = None
    THEN global_transforms[e] = GlobalTransform_from(hierarchy.transform[e][1])
    ELSE global_transforms[e] =
            GlobalTransform_mul_transform(global_transforms[hierarchy.parent[e][1]],
                                          hierarchy.transform[e][1])

\* Every entity between the entity and its root has Transform and
\* GlobalTransform.
UnbrokenAbove(e) ==
    \A a \in Ancestors(hierarchy.parent, e, Cardinality(DOMAIN hierarchy.parent)) :
       hierarchy.transform[a] # None

\* C27 as stated: after propagate_transforms on a well-formed hierarchy with
\* every Transform flagged as changed, each root has its Transform as
\* GlobalTransform and every entity reachable from a root through Children,
\* at any depth, has its parent's GlobalTransform composed with its Transform.
C27_Propagated ==
    PropagationDone =>
       \A e \in Reachable :
          (/\ hierarchy.transform[e] # None
           /\ hierarchy.parent[e] # None => hierarchy.transform[hierarchy.parent[e][1]] # None)
          => Composed(e)

\* C27 amended: the same for the entities with no entity lacking Transform and
\* GlobalTransform between them and their root.
C27_PropagatedUnbroken ==
    PropagationDone =>
       \A e \in Reachable :
          (hierarchy.transform[e] # None /\ UnbrokenAbove(e)) => Composed(e)

\* Propagation is over in a hierarchy of two roots, one of them with a chain
\* of two entities below it.
C27_Witness ==
    /\ PropagationDone
    /\ Cardinality(DOMAIN tasks) = 2
    /\ \E e \in Reachable :
          /\ Len(global_transforms[e]) = 3
          /\ UnbrokenAbove(e)

\* Propagation is over and has not reached an entity below one that has no
\* Transform.
StoppedAtMissingTransform ==
    /\ PropagationDone
    /\ \E e \in Reachable :
          /\ hierarchy.transform[e] # None
          /\ ~UnbrokenAbove(e)
          /\ global_transforms[e] = StaleGlobalTransform

\* The entities task r took the GlobalTransform of.
TouchedBy(r) == {e \in DOMAIN hierarchy.parent : <<r, e>> \in touched}

\* The entities whose Children task r loops over: those it took the
\* GlobalTransform of that have Children.
IteratedBy(r) == {e \in TouchedBy(r) : hierarchy.children[e] # None}

\* The entities propagate_recursive was called on by a task r that has ended
\* without a panic, and r itself.
VisitedBy(r) ==
    {r} \cup {c \in DOMAIN hierarchy.parent :
                 \E x \in IteratedBy(r) : c \in Range(hierarchy.children[x][1])}

\* Every entity a task took the GlobalTransform of, its root aside, has as
\* Parent an entity the task took the GlobalTransform of before.
TouchedThroughParent ==
    \A r \in DOMAIN tasks : \A e \in TouchedBy(r) \ {r} :
       /\ hierarchy.parent[e] # None
       /\ hierarchy.parent[e][1] \in TouchedBy(r)

\* The children listed by the entities of S all have the entity that lists
\* them as Parent.
ChildrenAgree(S) ==
    \A x \in S : hierarchy.children[x] # None =>
       \A c \in Range(hierarchy.children[x][1]) : hierarchy.parent[c] = Some(x)

EndedOverMalformed ==
    \E r \in DOMAIN tasks :
       /\ tasks[r].status = "done"
       /\ \E x \in VisitedBy(r) :
             /\ hierarchy.transform[x] = None
             /\ ~ChildrenAgree({x})

\* The entities whose GlobalTransform task r holds mutably: its root while
\* the closure runs, and the entity of a call inside its unsafe block.
Holding(r) ==
    IF tasks[r].status # "running" THEN {}
    ELSE {r} \cup {tasks[r].stack[i].entity :
                      i \in {j \in DOMAIN tasks[r].stack :
                                tasks[r].stack[j].pc = "holding"}}

\* C29: in every interleaving of the root tasks, on any hierarchy, no
\* GlobalTransform is held mutably by two tasks at a time, and none is ever
\* taken by two different tasks.
C29_NoSharedAccess ==
    /\ \A r1, r2 \in DOMAIN tasks : r1 # r2 => Holding(r1) \cap Holding(r2) = {}
    /\ \A r1, r2 \in DOMAIN tasks : r1 # r2 => TouchedBy(r1) \cap TouchedBy(r2) = {}

\* One task holds the GlobalTransform of an entity that another root lists
\* too, and the task of that root has panicked.
C29_Witness ==
    \E r1, r2 \in DOMAIN tasks :
       /\ r1 # r2
       /\ tasks[r1].status = "running"
       /\ tasks[r2].status = "panicked"
       /\ \E e \in Holding(r1) \ {r1} : e \in Range(hierarchy.children[r2][1])

\* C30: on any Parent and Children components, cyclic or inconsistent ones
\* included, every task of propagate_transforms ends or panics.
C30_Terminates == <>PropagationDone

\* The call stack of a task is never deeper than the number of entities.
StackBounded ==
    \A r \in DOMAIN tasks : Len(tasks[r].stack) <= Cardinality(DOMAIN hierarchy.parent)

\* A task panicked when its traversal came back, along a cycle of Children,
\* to an entity it had taken the GlobalTransform of.
C30_Witness ==
    \E r \in DOMAIN tasks :
       /\ tasks[r].status = "panicked"
       /\ PropagationDone
       /\ \E e \in TouchedBy(r) \ {r} :
             /\ hierarchy.children[e] # None
             /\ \E c \in Range(hierarchy.children[e][1]) :
                   c \in TouchedBy(r) /\ hierarchy.parent[c] # Some(e)

\* The GlobalTransform of the entity has been written by the system.
Overwritten(e) == global_transforms[e] # StaleGlobalTransform

\* Something at or above the entity changed: its Transform, or the Transform
\* or the Children of one of its ancestors.
ChangedAbove(e) ==
    \/ hierarchy.transform_changed[e]
    \/ \E a \in Ancestors(hierarchy.parent, e, Cardinality(DOMAIN hierarchy.parent)) :
          hierarchy.transform_changed[a] \/ hierarchy.children_changed[a]

\* The entities the claim calls roots and non-roots: those with a
\* GlobalTransform that root_query matches, or that have a Parent.
Roots == RootQuery(hierarchy)

NonRoots ==
    {e \in DOMAIN hierarchy.parent :
        hierarchy.parent[e] # None /\ hierarchy.transform[e] # None}

\* C31 as stated: in a well-formed hierarchy the GlobalTransform of a
\* non-root entity is overwritten if and only if its Transform, or the
\* Transform or the Children of one of its ancestors, changed; that of a root
\* if and only if its Transform changed; no other GlobalTransform is written.
C31_OverwrittenIffChanged ==
    /\ \A e \in DOMAIN hierarchy.parent :
          Overwritten(e) =>
             \/ e \in Roots /\ hierarchy.transform_changed[e]
             \/ e \in NonRoots /\ ChangedAbove(e)
    /\ PropagationDone =>
          /\ \A e \in Roots : hierarchy.transform_changed[e] => Overwritten(e)
          /\ \A e \in NonRoots : ChangedAbove(e) => Overwritten(e)

\* C31 amended: the same, for the non-root entities with no entity lacking
\* Transform and GlobalTransform between them and their root; the
\* GlobalTransform of an entity below such an entity is never written.
C31_OverwrittenIffChangedUnbroken ==
    /\ \A e \in DOMAIN hierarchy.parent :
          Overwritten(e) =>
             \/ e \in Roots /\ hierarchy.transform_changed[e]
             \/ e \in NonRoots /\ UnbrokenAbove(e) /\ ChangedAbove(e)
    /\ PropagationDone =>
          /\ \A e \in Roots : hierarchy.transform_changed[e] => Overwritten(e)
          /\ \A e \in NonRoots :
                (UnbrokenAbove(e) /\ ChangedAbove(e)) => Overwritten(e)

\* Propagation is over; no Transform changed, an entity two levels down was
\* overwritten because the Children of an ancestor changed, and another
\* entity with nothing changed above it was left alone.
C31_Witness ==
    /\ PropagationDone
    /\ \E e \in NonRoots :
          /\ Overwritten(e)
          /\ hierarchy.parent[e][1] \in NonRoots
          /\ \A x \in DOMAIN hierarchy.parent : ~hierarchy.transform_changed[x]
    /\ \E e \in NonRoots : UnbrokenAbove(e) /\ ~ChangedAbove(e) /\ ~Overwritten(e)

\* Propagation is over and has left alone an entity whose Transform changed,
\* below an entity that has no Transform.
ChangedButSkipped ==
    /\ PropagationDone
    /\ \E e \in NonRoots :
          /\ hierarchy.transform_changed[e]
          /\ ~UnbrokenAbove(e)
          /\ ~Overwritten(e)

\* The rows of the span the cursor is bound to that it has not passed yet and
\* that the filter accepts.
RestAccepted(cursor) ==
    {k \in (cursor.current_index + 1)..cursor.current_len :
        (IF cursor.IS_DENSE THEN cursor.entities[k] ELSE cursor.entities[k].entity)
           \in query_state.pass}

\* The matched spans the cursor has not pulled yet that hold no entity.
EmptyAhead(cursor) ==
    {k \in DOMAIN cursor.id_iter :
        SpanRows(cursor.IS_DENSE, cursor.id_iter[k]) = <<>>}

\* C32: QueryIterationCursor::next skips the empty tables or archetypes of
\* the matched-id list: it returns None exactly when no accepted row is left
\* in the span it is bound to and in the spans still in the id list, and then
\* the id list is exhausted; past the end of its span it returns the first
\* accepted row of the later spans, whatever empty spans come before it.
C32_EmptySpansSkipped ==
    [][last'.op = "next" =>
         LET cursor == iter[1].cursor
             later == AcceptedRows(cursor.IS_DENSE, cursor.id_iter)
         IN  /\ (last'.ret = None) <=> (RestAccepted(cursor) = {} /\ later = <<>>)
             /\ (last'.ret = None) =>
                    /\ iter'[1].cursor.id_iter = <<>>
                    /\ iter'[1].cursor.current_index = iter'[1].cursor.current_len
             /\ (last'.ret # None /\ RestAccepted(cursor) = {}) =>
                    last'.ret = Some(Head(later))]_vars

\* The iterator has returned a row of a span that comes after an empty span
\* in the matched-id list, and then None.
C32_Witness ==
    /\ Exhausted(1)
    /\ LET ids == MatchedIds(query_state.IS_DENSE)
       IN  \E j, k \in DOMAIN ids :
              /\ j < k
              /\ SpanRows(query_state.IS_DENSE, ids[j]) = <<>>
              /\ \E n \in DOMAIN Items(yielded[1]) :
                     Items(yielded[1])[n] \in Range(SpanRows(query_state.IS_DENSE, ids[k]))

\* The number of items iterator 1, a QueryIter, has still to yield.
Remaining ==
    Len(AcceptedRows(query_state.IS_DENSE, MatchedIds(query_state.IS_DENSE)))
       - Len(Items(yielded[1]))

\* C33: at every point of an iteration the bounds of QueryIter::size_hint
\* contain the number of items still to be yielded, and with an archetype
\* filter ExactSizeIterator::len is that number.
C33_SizeHintContainsRemaining ==
    LET hint == QueryIter_size_hint(archetypes, query_state)
    IN  /\ hint[1] <= Remaining
        /\ Remaining <= hint[2][1]
        /\ query_state.IS_ARCHETYPAL =>
               QueryIter_len(archetypes, query_state) = Remaining

\* What does hold: the upper bound is never below the number of items still
\* to be yielded, and before the first call of next the bounds contain it and
\* len is exact.
SizeHintBeforeFirstNext ==
    LET hint == QueryIter_size_hint(archetypes, query_state)
    IN  /\ Remaining <= hint[2][1]
        /\ yielded[1] = <<>> =>
               /\ hint[1] <= Remaining
               /\ query_state.IS_ARCHETYPAL =>
                      QueryIter_len(archetypes, query_state) = Remaining

\* An iterator over a query with an archetype filter has yielded an item and
\* reports more items than it has left.
SizeHintStale ==
    /\ query_state.IS_ARCHETYPAL
    /\ Items(yielded[1]) # <<>>
    /\ QueryIter_size_hint(archetypes, query_state)[1] > Remaining
    /\ QueryIter_len(archetypes, query_state) > Remaining

\* The matched entities whose rows pass the filter.
PassingEntities == MatchedEntities \cap query_state.pass

\* The row a cursor returned on its last successful next: the one before
\* current_index in the span it is bound to.
LastRowEntity(cursor) ==
    IF cursor.IS_DENSE THEN cursor.entities[cursor.current_index]
    ELSE cursor.entities[cursor.current_index].entity

NoEmptyCombination ==
    /\ iter[1].kind = "QueryCombinationIter"
    /\ iter[1].K = 0
    /\ PassingEntities # {}
    /\ Exhausted(1)

\* The values a slot holds: one or none.
Held(slot) == IF slot.data = None THEN <<>> ELSE <<slot.data[1]>>

\* How often a sequence holds the value.
Occurrences(seq, v) == Cardinality({k \in DOMAIN seq : seq[k] = v})

\* The values the step moved into the slot and those it handed to the caller.
MovedIn(l) == IF l.op \in {"insert", "insert_with_ticks"} THEN <<l.arg[2]>> ELSE <<>>

HandedOut(l) == IF l.op = "remove" /\ l.ret # None THEN <<l.ret[1][1]>> ELSE <<>>

\* C35: in every insert, insert_with_ticks, remove and remove_and_drop, the
\* values held before and the value moved in are, each as often, the values
\* held afterwards, those dropped and the one handed to the caller: a value
\* leaves the slot by exactly one of a drop and a remove, once.  An insert
\* drops the value it overwrites and nothing else, remove drops nothing,
\* remove_and_drop drops the value held and nothing when the slot is empty.
C35_ReleasedOnce ==
    [][last'.op \in {"insert", "insert_with_ticks", "remove", "remove_and_drop"} =>
         LET c == last'.arg[1]
             before == Held(resources[c]) \o MovedIn(last')
             after == Held(resources'[c]) \o last'.dropped \o HandedOut(last')
         IN  /\ \A v \in Values : Occurrences(before, v) = Occurrences(after, v)
             /\ last'.op = "remove" => last'.dropped = <<>>
             /\ last'.op # "remove" => HandedOut(last') = <<>>
             /\ last'.op \in {"insert", "insert_with_ticks"} =>
                    /\ Held(resources'[c]) = MovedIn(last')
                    /\ last'.dropped = Held(resources[c])
             /\ last'.op \in {"remove", "remove_and_drop"} =>
                    Held(resources'[c]) = <<>>
             /\ (last'.op = "remove_and_drop" /\ Held(resources[c]) = <<>>) =>
                    last'.dropped = <<>>
             /\ OtherSlotsKept(c)]_vars

\* An insert has just overwritten, and so dropped, a value that is not the
\* one moved in.
C35_Witness ==
    /\ last.op = "insert"
    /\ last.dropped # <<>>
    /\ last.dropped # MovedIn(last)
    /\ Held(resources[last.arg[1]]) = MovedIn(last)

\* remove_and_drop was called on an empty slot and dropped nothing.
DroppedNothing ==
    /\ last.op = "remove_and_drop"
    /\ last.dropped = <<>>

\* remove_and_drop has dropped the value of a slot.
DroppedByClear ==
    /\ last.op = "remove_and_drop"
    /\ last.dropped # <<>>

\* C36: Archetypes::get_2_mut(a, b) on two distinct existing ids returns
\* without a panic a reference to the archetype with id a and then one to
\* the archetype with id b, whichever id is larger; with a == b it panics;
\* whenever it returns, the two references are to different archetypes.
C36_Get2Mut ==
    last.op = "get_2_mut" =>
       LET a == last.arg[1]
           b == last.arg[2]
           n == Archetypes_len(archetypes)
       IN  /\ (a # b /\ a < n /\ b < n) =>
                  /\ ~panicked
                  /\ last.ret # None
                  /\ archetypes[last.ret[1][1] + 1].id = a
                  /\ archetypes[last.ret[1][2] + 1].id = b
           /\ (a = b) => (panicked /\ last.ret = None)
           /\ (last.ret # None) =>
                  /\ last.ret[1][1] # last.ret[1][2]
                  /\ archetypes[last.ret[1][1] + 1]
                         # archetypes[last.ret[1][2] + 1]

\* The archetype with the larger id was asked for first and returned first.
C36_Witness ==
    /\ last.op = "get_2_mut"
    /\ last.arg[1] > last.arg[2]
    /\ last.ret # None
    /\ archetypes[last.ret[1][1] + 1].id = last.arg[1]
    /\ archetypes[last.ret[1][2] + 1].id = last.arg[2]

\* The same archetype was asked for twice, and the call panicked.
SameArchetypeTwicePanicked ==
    /\ last.op = "get_2_mut"
    /\ last.arg[1] = last.arg[2]
    /\ last.arg[1] < Archetypes_len(archetypes)
    /\ panicked

\* The elements of the vector are inside its allocation and initialised.
Sound(vec) ==
    /\ vec.length <= Len(vec.data)
    /\ \A k \in 1..vec.length : vec.data[k] # None

\* The index push writes at is inside what reserve_for_push left allocated.
WriteInside(vec) == vec.length < Len(Vec32_reserve_for_push(vec).data)

\* C37: in every state reached from new or with_capacity by push, reserve
\* and clear, the length of a Vec32 is at most its capacity, and push writes
\* its element at an index inside the allocated capacity.
C37_LengthWithinCapacity ==
    /\ Vec32_len(vec32) <= Vec32_capacity(vec32)
    /\ last.op = "push" => WriteInside(last.before)

\* What does hold: the capacity field is the number of cells allocated.
CapacityIsAllocation == Vec32_capacity(vec32) = Len(vec32.data)

\* A second push on a vector made by new has returned: two elements, a
\* capacity of one.
PushedBeyondCapacity ==
    /\ last.op = "push"
    /\ ~panicked
    /\ Vec32_len(vec32) = 2
    /\ Vec32_capacity(vec32) = 1

\* C38: swap_remove_unchecked(i) with i < len returns the element that was
\* at index i, decreases len by one, moves the former last element to index
\* i when i was not the last index, and leaves every other element.
C38_SwapRemove ==
    (last.op = "swap_remove_unchecked" /\ ~panicked /\ Sound(last.before)) =>
       LET i == last.arg[1]
           old == last.before
           n == old.length
       IN  /\ last.ret = Some(old.data[i + 1][1])
           /\ Vec32_len(vec32) = n - 1
           /\ (i # n - 1) => vec32.data[i + 1] = old.data[n]
           /\ \A k \in 0..(n - 2) : (k # i) => vec32.data[k + 1] = old.data[k + 1]

\* What does hold: the element is returned and replaced by the last one, the
\* other elements stay, and the length is what it was.
SwapRemoveKeepsLength ==
    (last.op = "swap_remove_unchecked" /\ ~panicked /\ Sound(last.before)) =>
       LET i == last.arg[1]
           old == last.before
           n == old.length
       IN  /\ last.ret = Some(old.data[i + 1][1])
           /\ Vec32_len(vec32) = n
           /\ (i # n - 1) => vec32.data[i + 1] = old.data[n]
           /\ \A k \in 0..(n - 1) : (k # i) => vec32.data[k + 1] = old.data[k + 1]

\* The first of two elements was removed and both indices still answer.
RemovedButCounted ==
    /\ last.op = "swap_remove_unchecked"
    /\ Sound(last.before)
    /\ last.before.length = 2
    /\ last.arg = <<0>>
    /\ Vec32_len(vec32) = 2

\* C39: when reserve(additional) has returned, the capacity is at least
\* len + additional and not smaller than before, and the length and the
\* stored elements are unchanged.
C39_Reserve ==
    (last.op = "reserve" /\ ~panicked) =>
       /\ Vec32_capacity(vec32) >= Vec32_len(vec32) + last.arg[1]
       /\ Vec32_capacity(vec32) >= Vec32_capacity(last.before)
       /\ Vec32_len(vec32) = Vec32_len(last.before)
       /\ Sound(last.before) =>
              \A k \in 1..Vec32_len(vec32) : vec32.data[k] = last.before.data[k]

\* What does hold: reserve keeps the length and the stored elements.
ReserveKeepsElements ==
    (last.op = "reserve" /\ ~panicked) =>
       /\ Vec32_len(vec32) = Vec32_len(last.before)
       /\ Sound(last.before) =>
              \A k \in 1..Vec32_len(vec32) : vec32.data[k] = last.before.data[k]

\* reserve has returned with less capacity than was asked for.
ReservedTooLittle ==
    /\ last.op = "reserve"
    /\ ~panicked
    /\ Vec32_capacity(vec32) < Vec32_len(vec32) + last.arg[1]

\* reserve has returned with less capacity than the vector had.
ReserveShrank ==
    /\ last.op = "reserve"
    /\ ~panicked
    /\ Vec32_capacity(vec32) < Vec32_capacity(last.before)

\* The values get(index) may return on the vector.
Gets(vec, index) == {r.ret : r \in Vec32_get(vec, index)}

\* C40: a Vec32 behaves as a sequence.  After push(v) the length has grown
\* by one, get(len - 1) returns v and the earlier elements are what they
\* were; get and get_mut return Some exactly below the length; clear sets the
\* length to 0 and keeps the capacity.
C40_Sequence ==
    ~panicked =>
       /\ last.op \in {"push", "push_unchecked"} =>
              /\ Vec32_len(vec32) = Vec32_len(last.before) + 1
              /\ Gets(vec32, Vec32_len(vec32) - 1) = {Some(last.arg[1])}
              /\ \A k \in 0..(Vec32_len(last.before) - 1) :
                     Gets(vec32, k) = Gets(last.before, k)
       /\ last.op \in {"get", "get_mut"} =>
              ((last.ret # None) <=> (last.arg[1] < Vec32_len(vec32)))
       /\ last.op = "clear" =>
              /\ Vec32_len(vec32) = 0
              /\ Vec32_capacity(vec32) = Vec32_capacity(last.before)

\* What does hold: the same for the pushes that write inside the allocation.
SequenceInsideCapacity ==
    ~panicked =>
       /\ (last.op \in {"push", "push_unchecked"} /\ WriteInside(last.before)) =>
              /\ Vec32_len(vec32) = Vec32_len(last.before) + 1
              /\ Gets(vec32, Vec32_len(vec32) - 1) = {Some(last.arg[1])}
              /\ \A k \in 0..(Vec32_len(last.before) - 1) :
                     Gets(vec32, k) = Gets(last.before, k)
       /\ last.op \in {"get", "get_mut"} =>
              ((last.ret # None) <=> (last.arg[1] < Vec32_len(vec32)))
       /\ last.op = "clear" =>
              /\ Vec32_len(vec32) = 0
              /\ Vec32_capacity(vec32) = Vec32_capacity(last.before)

\* get has returned, for the element just pushed outside the allocation, a
\* value that is not the one pushed.
PushedValueLost ==
    /\ last.op = "get"
    /\ last.before.length = 2
    /\ last.before.capacity = 1
    /\ last.arg = <<1>>
    /\ last.ret # None
    /\ last.before.data[1] # last.ret
====
